---------------------------- MODULE Spec2Model ----------------------------
(***************************************************************************)
(* Terminal Launcher: the session orchestrator (TerminalManager) and the   *)
(* host it drives (vscode.window terminals, timers), as a state machine.   *)
(*                                                                         *)
(* Optional values (an absent field, undefined) are sequences of length 0  *)
(* or 1: <<>> is "absent", <<v>> is "present with value v".                *)
(* A path is [abs, segs]: whether it starts with "/" and its segments.     *)
(* Time is a virtual clock in milliseconds.                                *)
(***************************************************************************)
EXTENDS Integers, Sequences, FiniteSets, TLC

(* ------------------------------ constants ------------------------------ *)

\* setTimeout(..., 500) before the commands of a new terminal are dispatched
GraceMs == 500

\* setTimeout(resolve, 200) between two creations of one group
StaggerMs == 200

\* config.commandDelay || 100
DefaultCommandDelay == 100

\* let counter = 2 in generateUniqueTerminalName
FirstCounter == 2

(* -------------------------------- bounds ------------------------------- *)

\* launch requests in one configuration
MaxRequests == 2

\* sessions live in the host before the launch
MaxLive == 2

\* vscode.window.createTerminal calls the host lets fail
MaxHostFailures == 1

\* entries of one commands array
MaxCommands == 2

\* the config files a workspace holds at most
MaxFiles == 2

\* lines of one custom-format file
MaxLines == 3

(* ------------------------------- optionals ----------------------------- *)

None == <<>>

Some(v) == <<v>>

IsSome(o) == o # <<>>

\* JavaScript truthiness of an optional string: undefined and "" are falsy
TruthyStr(o) == IsSome(o) /\ o[1] # ""

\* JavaScript truthiness of an optional number: undefined and 0 are falsy
TruthyNum(o) == IsSome(o) /\ o[1] # 0

\* JavaScript truthiness of an optional array: only undefined is falsy
NonEmptyArr(o) == IsSome(o) /\ Len(o[1]) > 0

(* --------------------------------- paths ------------------------------- *)

Path(a, s) == [abs |-> a, segs |-> s]

\* the empty string as a path
EmptyPath == Path(FALSE, <<>>)

\* truthiness of an optional path string: undefined and "" are falsy
TruthyPath(o) == IsSome(o) /\ o[1] # EmptyPath

\* path.isAbsolute (POSIX)
IsAbsolute(p) == p.abs

\* path.normalize on the segments: "." is dropped, ".." removes the segment
\* before it (at the root of an absolute path it is dropped, at the start of
\* a relative path it is kept)
RECURSIVE NormSegs(_, _, _)
NormSegs(abs, done, rest) ==
    IF rest = <<>> THEN done
    ELSE LET s == Head(rest) IN
         IF s = "." \/ s = "" THEN NormSegs(abs, done, Tail(rest))
         ELSE IF s = ".."
              THEN IF done # <<>> /\ done[Len(done)] # ".."
                   THEN NormSegs(abs, SubSeq(done, 1, Len(done) - 1), Tail(rest))
                   ELSE IF abs THEN NormSegs(abs, done, Tail(rest))
                        ELSE NormSegs(abs, Append(done, ".."), Tail(rest))
              ELSE NormSegs(abs, Append(done, s), Tail(rest))

\* path.normalize: the empty relative result is "."
Normalize(p) ==
    LET n == NormSegs(p.abs, <<>>, p.segs) IN
    IF n = <<>> /\ ~p.abs THEN Path(FALSE, <<".">>) ELSE Path(p.abs, n)

\* path.join(a, b): zero-length arguments are ignored, the rest are joined
\* with "/" and normalized
Join(a, b) ==
    IF a = EmptyPath THEN Normalize(b)
    ELSE IF b = EmptyPath THEN Normalize(a)
    ELSE Normalize(Path(a.abs, a.segs \o b.segs))

\* path.basename: the last segment ("" for "/" and for "")
Basename(p) == IF p.segs = <<>> THEN "" ELSE p.segs[Len(p.segs)]

\* the segments separated by "/"
RECURSIVE SegStr(_)
SegStr(s) ==
    IF s = <<>> THEN ""
    ELSE IF Len(s) = 1 THEN s[1]
    ELSE s[1] \o "/" \o SegStr(Tail(s))

\* the string a path stands for
PathStr(p) == (IF p.abs THEN "/" ELSE "") \o SegStr(p.segs)

(* ----------------------------- configuration --------------------------- *)

\* TerminalConfig: the fields the orchestrator reads to name, place and feed
\* a session
Entry(name, cwd, script, commands, command, commandDelay) ==
    [name |-> name, cwd |-> cwd, script |-> script, commands |-> commands,
     command |-> command, commandDelay |-> commandDelay]

\* TerminalGroupConfig
Group(terms) == [terminals |-> terms]

\* TerminalLauncherConfig
Config(groups, terms) == [groups |-> groups, terminals |-> terms]

(* ------------------------------ config parser -------------------------- *)

\* The content of a file is a sequence of characters, each a string of
\* length one, so that trimming and splitting are computed on the text.

Whitespace == {" ", "\t", "\r", "\n"}

Digits == {"0", "1", "2", "3", "4", "5", "6", "7", "8", "9"}

\* String.prototype.trimStart, trimEnd, trim
RECURSIVE TrimStart(_)
TrimStart(s) ==
    IF s # <<>> /\ Head(s) \in Whitespace THEN TrimStart(Tail(s)) ELSE s

RECURSIVE TrimEnd(_)
TrimEnd(s) ==
    IF s # <<>> /\ s[Len(s)] \in Whitespace
    THEN TrimEnd(SubSeq(s, 1, Len(s) - 1))
    ELSE s

Trim(s) == TrimEnd(TrimStart(s))

\* s.startsWith(c), s.endsWith(c), s.includes(c) for a character c
StartsWith(s, c) == s # <<>> /\ Head(s) = c

EndsWith(s, c) == s # <<>> /\ s[Len(s)] = c

Includes(s, c) == \E i \in 1..Len(s) : s[i] = c

\* s.slice(n): what follows the first n characters
After(s, n) == SubSeq(s, n + 1, Len(s))

\* s.slice(1, -1)
Slice1(s) == SubSeq(s, 2, Len(s) - 1)

\* s.indexOf(c) + 1: the position of the first c, 0 when there is none
IndexOf(s, c) ==
    IF Includes(s, c)
    THEN CHOOSE i \in 1..Len(s) :
             s[i] = c /\ \A j \in 1..(i - 1) : s[j] # c
    ELSE 0

\* the position of the k-th separator of s: 0 before the first piece, and
\* one past the end after the last
SeparatorAt(s, sep, k) ==
    LET at == {i \in 1..Len(s) : s[i] = sep}
    IN  IF k = 0 THEN 0
        ELSE IF k > Cardinality(at) THEN Len(s) + 1
        ELSE CHOOSE i \in at : Cardinality({j \in at : j < i}) = k - 1

\* s.split(sep): the pieces between the separators, empty pieces included
Split(s, sep) ==
    [k \in 1..(Cardinality({i \in 1..Len(s) : s[i] = sep}) + 1) |->
        SubSeq(s, SeparatorAt(s, sep, k - 1) + 1, SeparatorAt(s, sep, k) - 1)]

\* parts.join(sep)
RECURSIVE JoinWith(_, _)
JoinWith(parts, sep) ==
    IF parts = <<>> THEN <<>>
    ELSE IF Len(parts) = 1 THEN parts[1]
    ELSE parts[1] \o <<sep>> \o JoinWith(Tail(parts), sep)

\* parts.map(cmd => cmd.trim())
TrimAll(parts) == [i \in 1..Len(parts) |-> Trim(parts[i])]

\* ---- JSON.parse, for documents made of null, true, false, unsigned
\* ---- integers, strings without escapes, arrays and objects.
\* A decoded value is [t, v]: its type and its payload; the members of an
\* object are <<key, value>> pairs in document order.
JNull == [t |-> "null", v |-> <<>>]

JBool(b) == [t |-> "bool", v |-> b]

JNum(digits) == [t |-> "num", v |-> digits]

JStr(chars) == [t |-> "str", v |-> chars]

JArr(elems) == [t |-> "arr", v |-> elems]

JObj(members) == [t |-> "obj", v |-> members]

\* the result of the decoding: a value, or a failure (a SyntaxError)
JOk(val) == [ok |-> TRUE, val |-> val]

JFail == [ok |-> FALSE, val |-> JNull]

\* a token of the document: a punctuation mark, a scalar value, or text that
\* is no token
Token(k, v) == [k |-> k, v |-> v]

Punctuation == {"{", "}", "[", "]", ",", ":"}

Quote == "\""

\* Strings have no escapes, so a quote opens a string when an even number
\* of quotes comes before it, and position i is inside a string (or is its
\* closing quote) when an odd number does.
InString(s, i) == Cardinality({j \in 1..(i - 1) : s[j] = Quote}) % 2 = 1

\* position i holds a character of a number or of a literal name
InWord(s, i) ==
    /\ ~InString(s, i)
    /\ s[i] \notin Whitespace \cup Punctuation \cup {Quote}

\* a token starts at position i
TokenStart(s, i) ==
    /\ ~InString(s, i)
    /\ \/ s[i] \in Punctuation \cup {Quote}
       \/ InWord(s, i) /\ (i = 1 \/ ~InWord(s, i - 1))

\* the string literal at the head of s, which starts with a quote: it ends at
\* the next quote, at position close of what follows, and holds no control
\* character and no escape
StringToken(s, close) ==
    IF close = 0 \/ \E i \in 2..close : s[i] \in {"\n", "\r", "\t", "\\"}
    THEN Token("bad", JNull)
    ELSE Token("val", JStr(SubSeq(s, 2, close)))

\* the word that starts at position i: it runs up to the next character
\* that is not of a word
WordAt(s, i) ==
    SubSeq(s, i, CHOOSE j \in i..Len(s) :
                     /\ \A k \in i..j : InWord(s, k)
                     /\ j = Len(s) \/ ~InWord(s, j + 1))

\* a word is a number (unsigned, a leading zero stands alone), one of the
\* three literal names, or no token
WordToken(w) ==
    IF \A k \in 1..Len(w) : w[k] \in Digits
    THEN IF Len(w) > 1 /\ Head(w) = "0" THEN Token("bad", JNull)
         ELSE Token("val", JNum(w))
    ELSE IF w = <<"n", "u", "l", "l">> THEN Token("val", JNull)
    ELSE IF w = <<"t", "r", "u", "e">> THEN Token("val", JBool(TRUE))
    ELSE IF w = <<"f", "a", "l", "s", "e">> THEN Token("val", JBool(FALSE))
    ELSE Token("bad", JNull)

\* the token that starts at position i
Lexeme(s, i) ==
    IF s[i] \in Punctuation THEN Token(s[i], JNull)
    ELSE IF s[i] = Quote
         THEN StringToken(After(s, i - 1), IndexOf(After(s, i), Quote))
    ELSE WordToken(WordAt(s, i))

\* the tokens of s, in order
Tokens(s) ==
    LET starts == SelectSeq([i \in 1..Len(s) |-> i], LAMBDA i : TokenStart(s, i))
    IN  [k \in 1..Len(starts) |-> Lexeme(s, starts[k])]

\* The decoder reads the tokens one by one. Its state is the stack of the
\* arrays and objects that are open (each a frame: its type, what it holds,
\* and for an object the key that waits for its value), what it expects
\* next, and the value of the document once it is complete.
Frame(t, items, key) == [t |-> t, items |-> items, key |-> key]

Decoder(stack, expect, val) == [stack |-> stack, expect |-> expect, val |-> val]

Failed == Decoder(<<>>, "fail", JNull)

Pop(stack) == SubSeq(stack, 1, Len(stack) - 1)

\* the frame on top of the stack with one more item
Holding(top, value) ==
    IF top.t = "arr" THEN Frame("arr", Append(top.items, value), <<>>)
    ELSE Frame("obj", Append(top.items, <<top.key, value>>), <<>>)

\* a value is complete: it is the document, or it goes into the open frame
Complete(stack, value) ==
    IF stack = <<>> THEN Decoder(<<>>, "end", value)
    ELSE Decoder(Append(Pop(stack), Holding(stack[Len(stack)], value)),
                 "more", JNull)

\* a token where a value is expected
OnValue(stack, tok) ==
    IF tok.k = "val" THEN Complete(stack, tok.v)
    ELSE IF tok.k = "[" THEN Decoder(Append(stack, Frame("arr", <<>>, <<>>)), "first", JNull)
    ELSE IF tok.k = "{" THEN Decoder(Append(stack, Frame("obj", <<>>, <<>>)), "firstkey", JNull)
    ELSE Failed

\* a token where the open frame may close
OnClose(stack, top, tok) ==
    IF tok.k = "]" /\ top.t = "arr" THEN Complete(Pop(stack), JArr(top.items))
    ELSE IF tok.k = "}" /\ top.t = "obj" THEN Complete(Pop(stack), JObj(top.items))
    ELSE Failed

\* a token where a key is expected
OnKey(stack, top, tok) ==
    IF tok.k = "val" /\ tok.v.t = "str"
    THEN Decoder(Append(Pop(stack), Frame("obj", top.items, tok.v.v)), "colon", JNull)
    ELSE Failed

\* the decoder after one more token
Decode(d, tok) ==
    IF d.expect = "value" THEN OnValue(d.stack, tok)
    ELSE IF d.expect = "first"
         THEN IF tok.k = "]" THEN OnClose(d.stack, d.stack[Len(d.stack)], tok)
              ELSE OnValue(d.stack, tok)
    ELSE IF d.expect = "firstkey"
         THEN IF tok.k = "}" THEN OnClose(d.stack, d.stack[Len(d.stack)], tok)
              ELSE OnKey(d.stack, d.stack[Len(d.stack)], tok)
    ELSE IF d.expect = "key" THEN OnKey(d.stack, d.stack[Len(d.stack)], tok)
    ELSE IF d.expect = "colon"
         THEN IF tok.k = ":" THEN Decoder(d.stack, "value", JNull) ELSE Failed
    ELSE IF d.expect = "more"
         THEN IF tok.k = ","
              THEN Decoder(d.stack,
                           IF d.stack[Len(d.stack)].t = "arr" THEN "value" ELSE "key",
                           JNull)
              ELSE OnClose(d.stack, d.stack[Len(d.stack)], tok)
    ELSE Failed

\* the decoder after the tokens toks: it stops at the first one that fails
RECURSIVE DecodeAll(_, _)
DecodeAll(d, toks) ==
    IF toks = <<>> \/ d.expect = "fail" THEN d
    ELSE DecodeAll(Decode(d, Head(toks)), Tail(toks))

\* the outcome of the decoder at the end of the document
Outcome(d) == IF d.expect = "end" THEN JOk(d.val) ELSE JFail

\* JSON.parse(content): the whole content is one value, or it throws
JsonParse(content) ==
    Outcome(DecodeAll(Decoder(<<>>, "value", JNull), Tokens(content)))

\* ---- the custom line format

KeyCwd == <<"c", "w", "d">>

KeyCommand == <<"c", "o", "m", "m", "a", "n", "d">>

KeyScript == <<"s", "c", "r", "i", "p", "t">>

KeyColor == <<"c", "o", "l", "o", "r">>

KeyIcon == <<"i", "c", "o", "n">>

KeyCommands == <<"c", "o", "m", "m", "a", "n", "d", "s">>

\* currentTerminal = { name }: a record with no other key set
Opened(name) ==
    [name |-> name, cwd |-> None, command |-> None, script |-> None,
     color |-> None, icon |-> None, commands |-> None]

\* the switch on the key of a key=value line
Assigned(t, key, value) ==
    IF key = KeyCwd THEN [t EXCEPT !.cwd = Some(value)]
    ELSE IF key = KeyCommand THEN [t EXCEPT !.command = Some(value)]
    ELSE IF key = KeyScript THEN [t EXCEPT !.script = Some(value)]
    ELSE IF key = KeyColor THEN [t EXCEPT !.color = Some(value)]
    ELSE IF key = KeyIcon THEN [t EXCEPT !.icon = Some(value)]
    ELSE IF key = KeyCommands
         THEN [t EXCEPT !.commands = Some(TrimAll(Split(value, ";")))]
    ELSE t

\* the lines the grammar reads: not blank, not a # comment
IsRead(line) == Trim(line) # <<>> /\ ~StartsWith(Trim(line), "#")

IsHeader(trimmed) == StartsWith(trimmed, "[") /\ EndsWith(trimmed, "]")

\* const [key, ...valueParts] = trimmed.split('=')
KeyOf(trimmed) == Trim(Head(Split(trimmed, "=")))

\* ValueOf keeping only what is between the first and the second "="
ValueOf_UpToSecondEquals(trimmed) == Trim(Split(trimmed, "=")[2])

\* valueParts.join('=').trim()
ValueOf(trimmed) == Trim(JoinWith(Tail(Split(trimmed, "=")), "="))

\* Flushed never pushing the open record
Flushed_DropsOpen(out, current) == out

\* config.terminals with currentTerminal pushed when there is one
Flushed(out, current) ==
    IF IsSome(current) THEN Append(out, current[1]) ELSE out

\* the loop over the lines: the open record and the records pushed so far
RECURSIVE ParseLines(_, _, _)
ParseLines(lines, current, out) ==
    IF lines = <<>> THEN Flushed(out, current)
    ELSE LET trimmed == Trim(Head(lines))
         IN  IF IsHeader(trimmed)
             THEN ParseLines(Tail(lines), Some(Opened(Slice1(trimmed))),
                             Flushed(out, current))
             ELSE IF IsSome(current) /\ Includes(trimmed, "=")
             THEN ParseLines(Tail(lines),
                             Some(Assigned(current[1], KeyOf(trimmed),
                                           ValueOf(trimmed))),
                             out)
             ELSE ParseLines(Tail(lines), current, out)

\* parseCustomFormat(content): a config with terminals and no groups
ParseCustomFormat(content) ==
    [groups |-> None,
     terminals |-> Some(ParseLines(SelectSeq(Split(content, "\n"), IsRead),
                                   None, <<>>))]

\* Parsed trying the custom grammar first, and taking the JSON value only
\* when the grammar finds no record
Parsed_CustomFirst(file, decoded) ==
    IF ~file.readable THEN [kind |-> "undefined"]
    ELSE IF ParseCustomFormat(file.content).terminals[1] # <<>> \/ ~decoded.ok
         THEN [kind |-> "custom", config |-> ParseCustomFormat(file.content)]
         ELSE [kind |-> "json", value |-> decoded.val]

\* what parseConfig returns for a file [readable, content] whose content
\* JSON.parse decodes as `decoded`: undefined when the read throws, the
\* decoded value when there is one, the result of the custom grammar otherwise
Parsed(file, decoded) ==
    IF ~file.readable THEN [kind |-> "undefined"]
    ELSE IF decoded.ok THEN [kind |-> "json", value |-> decoded.val]
    ELSE [kind |-> "custom", config |-> ParseCustomFormat(file.content)]

\* parseConfig(configPath)
ParseConfig(file) == Parsed(file, JsonParse(file.content))

\* ---- the decoded content seen as a TerminalLauncherConfig

\* the characters as one string
RECURSIVE Str(_)
Str(chars) == IF chars = <<>> THEN "" ELSE Head(chars) \o Str(Tail(chars))

\* the characters as a path: whether it starts with "/", and its segments
PathOf(chars) ==
    Path(StartsWith(chars, "/"),
         LET segs == SelectSeq(Split(chars, "/"), LAMBDA seg : seg # <<>>)
         IN  [i \in 1..Len(segs) |-> Str(segs[i])])

\* the digits as a number
RECURSIVE NumberOf(_)
NumberOf(digits) ==
    IF digits = <<>> THEN 0
    ELSE 10 * NumberOf(SubSeq(digits, 1, Len(digits) - 1))
         + (CHOOSE n \in 0..9 : ToString(n) = digits[Len(digits)])

\* obj[key] when it is there and has type t (the last member of that key)
Member(obj, key, t) ==
    LET at == {i \in 1..Len(obj.v) :
                  obj.v[i][1] = key /\ \A j \in (i + 1)..Len(obj.v) : obj.v[j][1] # key}
    IN  IF obj.t = "obj" /\ at # {} /\ obj.v[CHOOSE i \in at : TRUE][2].t = t
        THEN Some(obj.v[CHOOSE i \in at : TRUE][2].v)
        ELSE None

\* an optional string, path, number or list of strings out of an optional
\* of its characters
OptStr(o) == IF IsSome(o) THEN Some(Str(o[1])) ELSE None

OptPath(o) == IF IsSome(o) THEN Some(PathOf(o[1])) ELSE None

OptNumber(o) == IF IsSome(o) THEN Some(NumberOf(o[1])) ELSE None

OptStrings(o) ==
    IF IsSome(o) THEN Some([i \in 1..Len(o[1]) |-> Str(o[1][i])]) ELSE None

\* the payloads of the elements of a decoded array
Payloads(elems) == [i \in 1..Len(elems) |-> elems[i].v]

\* a terminal entry of a JSON document as the orchestrator reads it
JsonTerminal(obj) ==
    Entry(IF IsSome(Member(obj, <<"n", "a", "m", "e">>, "str"))
          THEN Str(Member(obj, <<"n", "a", "m", "e">>, "str")[1])
          ELSE "undefined",
          OptPath(Member(obj, KeyCwd, "str")),
          OptPath(Member(obj, KeyScript, "str")),
          IF IsSome(Member(obj, KeyCommands, "arr"))
          THEN OptStrings(Some(Payloads(Member(obj, KeyCommands, "arr")[1])))
          ELSE None,
          OptStr(Member(obj, KeyCommand, "str")),
          OptNumber(Member(obj, <<"c", "o", "m", "m", "a", "n", "d", "D", "e", "l", "a", "y">>,
                           "num")))

\* the terminals member of a decoded object, when it is an array
JsonTerminals(obj) ==
    LET elems == Member(obj, <<"t", "e", "r", "m", "i", "n", "a", "l", "s">>, "arr")
    IN  IF IsSome(elems)
        THEN Some([i \in 1..Len(elems[1]) |-> JsonTerminal(elems[1][i])])
        ELSE None

\* the groups member of a decoded object, when it is an array
JsonGroups(obj) ==
    LET elems == Member(obj, <<"g", "r", "o", "u", "p", "s">>, "arr")
    IN  IF IsSome(elems)
        THEN Some([i \in 1..Len(elems[1]) |-> Group(JsonTerminals(elems[1][i]))])
        ELSE None

\* a decoded JSON value cast to TerminalLauncherConfig
JsonConfig(value) == Config(JsonGroups(value), JsonTerminals(value))

\* a record of the custom grammar as the orchestrator reads it
CustomTerminal(t) ==
    Entry(Str(t.name), OptPath(t.cwd), OptPath(t.script), OptStrings(t.commands),
          OptStr(t.command), None)

CustomConfig(config) ==
    Config(None,
           Some([i \in 1..Len(config.terminals[1]) |->
                    CustomTerminal(config.terminals[1][i])]))

\* JavaScript truthiness of a decoded JSON value
Truthy(value) ==
    /\ value.t # "null"
    /\ value.t = "bool" => value.v
    /\ value.t = "num" => NumberOf(value.v) # 0
    /\ value.t = "str" => value.v # <<>>

\* what the callers of parseConfig get: nothing they can launch (undefined or
\* a falsy value), or a configuration
Launchable(result) ==
    IF result.kind = "undefined" THEN None
    ELSE IF result.kind = "custom" THEN Some(CustomConfig(result.config))
    ELSE IF Truthy(result.value) THEN Some(JsonConfig(result.value))
    ELSE None

(* -------------------------------- variables ---------------------------- *)

VARIABLES
    launch,     \* the launchTerminals calls: position, arguments, policy
    active,     \* the call that holds the thread (0: none is running)
    workspace,  \* vscode.workspace.workspaceFolders?.[0]?.uri.fsPath
    terminals,  \* vscode.window.terminals: the ids of the live sessions
    sess,       \* every session the host ever held, by id
    registry,   \* TerminalManager.terminals: the handles it tracks
    timers,     \* pending setTimeout callbacks
    now,        \* the clock, in ms
    received,   \* by session id: the texts it was sent, with the time
    dropped,    \* sendText calls on a disposed session
    events,     \* what the calls did to the host, in order
    failBudget, \* createTerminal calls the host may still fail
    shown,      \* the terminal.show calls, in order
    files,      \* the config files of the workspace, in discovery order
    cmd,        \* the invocations of the extension's commands
    notes       \* the messages and prompts the extension shows, in order

vars == <<launch, active, workspace, terminals, sess, registry, timers, now,
          received, dropped, events, failBudget, shown, files, cmd, notes>>

(* ------------------------------ name and path -------------------------- *)

\* projectBasePath ? `[${path.basename(projectBasePath)}] ${name}` : name
EffectiveName(base, name) ==
    IF TruthyPath(base) THEN "[" \o Basename(base[1]) \o "] " \o name ELSE name

\* projectBasePath || workspaceFolder?.uri.fsPath
BasePath(base, ws) == IF TruthyPath(base) THEN base ELSE ws

\* the guard of "Cannot resolve relative path without base path"
PathUnresolvable(cwd, basePath) ==
    ~TruthyPath(basePath) /\ TruthyPath(cwd) /\ ~IsAbsolute(cwd[1])

\* ResolveCwd joining an absolute cwd to the base as well
ResolveCwd_AlwaysJoin(cwd, basePath) ==
    IF TruthyPath(cwd)
    THEN IF TruthyPath(basePath) THEN Some(Join(basePath[1], cwd[1])) ELSE cwd
    ELSE basePath

\* config.cwd ? (isAbsolute(config.cwd) ? config.cwd : join(basePath, config.cwd))
\*            : basePath
ResolveCwd(cwd, basePath) ==
    IF TruthyPath(cwd)
    THEN IF IsAbsolute(cwd[1]) THEN cwd ELSE Some(Join(basePath[1], cwd[1]))
    ELSE basePath

\* cwd || basePath || '': what executeTerminalCommands gets as its base
DispatchBase(cwd, basePath) ==
    IF TruthyPath(cwd) THEN cwd[1]
    ELSE IF TruthyPath(basePath) THEN basePath[1] ELSE EmptyPath

\* isAbsolute(config.script) ? config.script : join(basePath, config.script)
ScriptPath(script, base) == IF IsAbsolute(script) THEN script ELSE Join(base, script)

(* ------------------------------- flattening ---------------------------- *)

\* GroupRequests with the loop running from the last terminal to the first
GroupRequests_Reversed(group, g) ==
    IF ~NonEmptyArr(group.terminals) THEN <<>>
    ELSE LET n == Len(group.terminals[1]) IN
         [x \in 1..n |->
            [g |-> g, i |-> n + 1 - x, n |-> n, entry |-> group.terminals[1][n + 1 - x]]]

\* launchTerminalGroup's loop over one group: a group without terminals
\* contributes nothing
GroupRequests(group, g) ==
    IF ~NonEmptyArr(group.terminals) THEN <<>>
    ELSE [i \in 1..Len(group.terminals[1]) |->
            [g |-> g, i |-> i, n |-> Len(group.terminals[1]),
             entry |-> group.terminals[1][i]]]

RECURSIVE GroupsFrom(_, _)
GroupsFrom(groups, g) ==
    IF g > Len(groups) THEN <<>>
    ELSE GroupRequests(groups[g], g) \o GroupsFrom(groups, g + 1)

\* Requests with the ungrouped list launched after the groups
Requests_AlsoUngrouped(config) ==
    (IF NonEmptyArr(config.groups) THEN GroupsFrom(config.groups[1], 1) ELSE <<>>)
    \o (IF NonEmptyArr(config.terminals)
        THEN [i \in 1..Len(config.terminals[1]) |->
                [g |-> 0, i |-> i, n |-> Len(config.terminals[1]),
                 entry |-> config.terminals[1][i]]]
        ELSE <<>>)

\* launchTerminals: the requests in the order the loops make them; g = 0
\* marks the ungrouped list
Requests(config) ==
    IF NonEmptyArr(config.groups) THEN GroupsFrom(config.groups[1], 1)
    ELSE IF NonEmptyArr(config.terminals)
         THEN [i \in 1..Len(config.terminals[1]) |->
                 [g |-> 0, i |-> i, n |-> Len(config.terminals[1]),
                  entry |-> config.terminals[1][i]]]
         ELSE <<>>

RECURSIVE GroupNamesFrom(_, _, _)
GroupNamesFrom(groups, g, base) ==
    IF g > Len(groups) THEN <<>>
    ELSE (IF IsSome(groups[g].terminals)
          THEN [i \in 1..Len(groups[g].terminals[1]) |->
                  EffectiveName(base, groups[g].terminals[1][i].name)]
          ELSE <<>>)
         \o GroupNamesFrom(groups, g + 1, base)

\* TerminalNames collecting the ungrouped names beside the grouped ones
TerminalNames_AlsoUngrouped(config, base) ==
    (IF NonEmptyArr(config.groups) THEN GroupNamesFrom(config.groups[1], 1, base)
     ELSE <<>>)
    \o (IF NonEmptyArr(config.terminals)
        THEN [i \in 1..Len(config.terminals[1]) |->
                EffectiveName(base, config.terminals[1][i].name)]
        ELSE <<>>)

\* checkForDuplicateTerminals: the names that would be created
TerminalNames(config, base) ==
    IF NonEmptyArr(config.groups) THEN GroupNamesFrom(config.groups[1], 1, base)
    ELSE IF NonEmptyArr(config.terminals)
         THEN [i \in 1..Len(config.terminals[1]) |->
                 EffectiveName(base, config.terminals[1][i].name)]
         ELSE <<>>

(* ---------------------------------- host ------------------------------- *)

RECURSIVE FirstNamed(_, _, _)
FirstNamed(live, ss, name) ==
    IF live = <<>> THEN 0
    ELSE IF ss[Head(live)].name = name THEN Head(live)
    ELSE FirstNamed(Tail(live), ss, name)

\* vscode.window.terminals.find(t => t.name === name): the first live session
\* of that name (0: undefined)
FindExistingTerminal(live, ss, name) == FirstNamed(live, ss, name)

\* `${baseName} (${counter})`
Numbered(baseName, counter) == baseName \o " (" \o ToString(counter) \o ")"

RECURSIVE UniqueFrom(_, _, _, _)
UniqueFrom(live, ss, baseName, counter) ==
    IF FindExistingTerminal(live, ss, Numbered(baseName, counter)) # 0
    THEN UniqueFrom(live, ss, baseName, counter + 1)
    ELSE Numbered(baseName, counter)

\* generateUniqueTerminalName with the counter starting one too high
GenerateUniqueTerminalName_From3(live, ss, baseName) ==
    UniqueFrom(live, ss, baseName, FirstCounter + 1)

\* generateUniqueTerminalName
GenerateUniqueTerminalName(live, ss, baseName) ==
    UniqueFrom(live, ss, baseName, FirstCounter)

\* a sequence without its elements equal to x
RECURSIVE Without(_, _)
Without(s, x) ==
    IF s = <<>> THEN <<>>
    ELSE IF Head(s) = x THEN Without(Tail(s), x)
    ELSE <<Head(s)>> \o Without(Tail(s), x)

\* terminal.dispose(): the session leaves vscode.window.terminals
Dispose(live, id) == Without(live, id)

IsLive(live, id) == \E j \in 1..Len(live) : live[j] = id

\* a sequence without its j-th element
RemoveAt(s, j) == SubSeq(s, 1, j - 1) \o SubSeq(s, j + 1, Len(s))

Event(op, l, sid, k, info) == [op |-> op, l |-> l, sid |-> sid, k |-> k, info |-> info]

Timer(kind, due, sid, l, text, base) ==
    [kind |-> kind, due |-> due, sid |-> sid, l |-> l, text |-> text, base |-> base]

\* terminal.show(preserveFocus)
Show(sid, preserveFocus) == [sid |-> sid, preserveFocus |-> preserveFocus]

Session(name, cwd, by, k, g, i, at, preserveFocus) ==
    [name |-> name, cwd |-> cwd, by |-> by, k |-> k, g |-> g, i |-> i, at |-> at,
     preserveFocus |-> preserveFocus]

(* ----------------------------- launchTerminals ------------------------- *)

LaunchIds == 1..Len(launch)

\* a launchTerminals(config, projectBasePath) call that has not started
Call(config, base) ==
    [pc |-> "ready", config |-> config, base |-> base, policy |-> "none",
     answer |-> "none", k |-> 0, prompts |-> 0, liveAtCheck |-> <<>>,
     report |-> "none", overlap |-> FALSE]

\* the names of the live sessions
LiveNames(live, ss) == {ss[live[j]].name : j \in 1..Len(live)}

\* Duplicates finding none
Duplicates_None(names, live, ss) == <<>>

\* terminalNames.filter(name => this.findExistingTerminal(name) !== undefined)
Duplicates(names, live, ss) ==
    SelectSeq(names, LAMBDA n : FindExistingTerminal(live, ss, n) # 0)

\* the answers the quick pick can give: one of its four items, or undefined
\* when it is dismissed
Answers == {"replace", "skip", "rename", "cancel", "dismiss"}

\* action?.value || 'cancel'
PolicyOf(answer) == IF answer = "dismiss" THEN "cancel" ELSE answer

\* Aborts without the early return
Aborts_Never(policy) == FALSE

\* if (duplicateAction === 'cancel') return
Aborts(policy) == policy = "cancel"

\* Handling with the skip branch missing
Handling_NoSkip(policy, existing) ==
    IF existing = 0 THEN "create"
    ELSE IF policy = "replace" THEN "replace"
    ELSE IF policy = "rename" THEN "rename"
    ELSE "create"

\* Handling with a name made unique whenever it is taken, whatever the policy
Handling_AlwaysUnique(policy, existing) ==
    IF existing = 0 THEN "create"
    ELSE IF policy = "replace" THEN "replace"
    ELSE IF policy = "skip" THEN "skip"
    ELSE "rename"

\* what createTerminal does about a live session of the same name:
\* replace disposes it, skip returns, rename picks another name, any other
\* policy creates beside it
Handling(policy, existing) ==
    IF existing = 0 THEN "create"
    ELSE IF policy = "replace" THEN "replace"
    ELSE IF policy = "skip" THEN "skip"
    ELSE IF policy = "rename" THEN "rename"
    ELSE "create"

\* the launch command passes path.dirname(selectedConfig.path) as the project
\* path; the launch at startup passes none
ByCommand(L) == IsSome(L.base)

\* launchTerminals returns; the launch command then shows "Terminals launched
\* for ...", whatever the call did
Return(L) ==
    [L EXCEPT !.pc = "done", !.report = IF ByCommand(L) THEN "launched" ELSE "none"]

\* launchTerminals after checkForDuplicateTerminals has returned `policy`:
\* it returns at once on cancel or when there is nothing to create, and
\* otherwise enters its loops at the first request
Enter(L, answer) ==
    LET policy == PolicyOf(answer) IN
    IF Aborts(policy) \/ Requests(L.config) = <<>>
    THEN Return([L EXCEPT !.policy = policy, !.answer = answer])
    ELSE [L EXCEPT !.pc = "run", !.policy = policy, !.answer = answer, !.k = 1]

\* the call is between its start and its return
InProgress(L) == L.pc \in {"prompt", "run", "sleep"}

\* the calls once call l has started as L: l and every call that is in
\* progress at that moment are marked as overlapping
Started(l, L) ==
    [m \in LaunchIds |->
        IF m = l
        THEN [L EXCEPT !.overlap = \E x \in LaunchIds : x # l /\ InProgress(launch[x])]
        ELSE IF InProgress(launch[m]) THEN [launch[m] EXCEPT !.overlap = TRUE]
        ELSE launch[m]]

\* checkForDuplicateTerminals finds a live session under one of the names:
\* the quick pick is shown and the call waits for the answer
StartLaunchPrompt(l) ==
    /\ active = 0
    /\ launch[l].pc = "ready"
    /\ Duplicates(TerminalNames(launch[l].config, launch[l].base), terminals, sess) # <<>>
    /\ launch' = Started(l, [launch[l] EXCEPT !.pc = "prompt",
                                               !.prompts = @ + 1,
                                               !.liveAtCheck = terminals])
    /\ events' = Append(events, Event("prompt", l, 0, 0, ""))
    /\ UNCHANGED <<files, cmd, notes, active, workspace, terminals, sess, registry, timers, now,
                   received, dropped, failBudget, shown>>

\* checkForDuplicateTerminals finds none: 'proceed', and launchTerminals goes on
StartLaunchProceed(l) ==
    /\ active = 0
    /\ launch[l].pc = "ready"
    /\ Duplicates(TerminalNames(launch[l].config, launch[l].base), terminals, sess) = <<>>
    /\ LET L == Enter([launch[l] EXCEPT !.liveAtCheck = terminals], "proceed") IN
       /\ launch' = Started(l, L)
       /\ active' = IF L.pc = "run" THEN l ELSE 0
    /\ UNCHANGED <<files, cmd, notes, workspace, terminals, sess, registry, timers, now, received,
                   dropped, events, failBudget, shown>>

\* the quick pick is answered, or dismissed
AnswerPrompt(l) ==
    /\ active = 0
    /\ launch[l].pc = "prompt"
    /\ \E answer \in Answers :
         LET L == Enter(launch[l], answer) IN
         /\ launch' = [launch EXCEPT ![l] = L]
         /\ active' = IF L.pc = "run" THEN l ELSE 0
    /\ UNCHANGED <<files, cmd, notes, workspace, terminals, sess, registry, timers, now, received,
                   dropped, events, failBudget, shown>>

(* ------------------------------ createTerminal ------------------------- *)

\* the request launchTerminals is at
Req(l) == Requests(launch[l].config)[launch[l].k]

\* Staggers with no delay at all
Staggers_Never(r) == FALSE

\* if (i < group.terminals.length - 1) await setTimeout(200): only in
\* launchTerminalGroup, and only after a terminal was created
Staggers(r) == r.g > 0 /\ r.i < r.n

\* Advanced with a request that created nothing ending the batch
Advanced_HaltOnFailure(l, created) ==
    LET L == launch[l] IN
    IF created /\ Staggers(Req(l)) THEN [L EXCEPT !.pc = "sleep"]
    ELSE IF L.k = Len(Requests(L.config)) \/ ~created THEN Return(L)
    ELSE [L EXCEPT !.k = @ + 1]

\* the loops move on after a request that returned `created`: they wait out
\* the stagger, go to the next request, or return
Advanced(l, created) ==
    LET L == launch[l] IN
    IF created /\ Staggers(Req(l)) THEN [L EXCEPT !.pc = "sleep"]
    ELSE IF L.k = Len(Requests(L.config)) THEN Return(L)
    ELSE [L EXCEPT !.k = @ + 1]

\* the stagger timer, when the loops wait
StaggerTimers(l, created) ==
    IF created /\ Staggers(Req(l))
    THEN <<Timer("stagger", now + StaggerMs, 0, l, "", EmptyPath)>>
    ELSE <<>>

ReqBasePath(l) == BasePath(launch[l].base, workspace)

ReqName(l) == EffectiveName(launch[l].base, Req(l).entry.name)

ReqExisting(l) == FindExistingTerminal(terminals, sess, ReqName(l))

ReqHandling(l) == Handling(launch[l].policy, ReqExisting(l))

\* vscode.window.terminals once createTerminal has handled the live session
\* of the same name
LiveAfterHandling(l) ==
    IF ReqHandling(l) = "replace" THEN Dispose(terminals, ReqExisting(l))
    ELSE terminals

DisposeEvents(l) ==
    IF ReqHandling(l) = "replace"
    THEN <<Event("dispose", l, ReqExisting(l), launch[l].k, ReqName(l))>>
    ELSE <<>>

\* CreatedName keeping the name that is taken
CreatedName_Taken(l) == ReqName(l)

\* the name the session is created under
CreatedName(l) ==
    IF ReqHandling(l) = "rename"
    THEN GenerateUniqueTerminalName(terminals, sess, ReqName(l))
    ELSE ReqName(l)

\* a relative cwd and nothing to resolve it against: an error message, no
\* terminal
RequestPathError(l) ==
    /\ active = l
    /\ launch[l].pc = "run"
    /\ PathUnresolvable(Req(l).entry.cwd, ReqBasePath(l))
    /\ events' = Append(events, Event("error", l, 0, launch[l].k, "path"))
    /\ launch' = [launch EXCEPT ![l] = Advanced(l, FALSE)]
    /\ active' = IF launch'[l].pc = "run" THEN l ELSE 0
    /\ UNCHANGED <<files, cmd, notes, workspace, terminals, sess, registry, timers, now, received,
                   dropped, failBudget, shown>>

\* policy skip and a live session of that name: no terminal
RequestSkip(l) ==
    /\ active = l
    /\ launch[l].pc = "run"
    /\ ~PathUnresolvable(Req(l).entry.cwd, ReqBasePath(l))
    /\ ReqHandling(l) = "skip"
    /\ events' = Append(events, Event("skip", l, ReqExisting(l), launch[l].k, ReqName(l)))
    /\ launch' = [launch EXCEPT ![l] = Advanced(l, FALSE)]
    /\ active' = IF launch'[l].pc = "run" THEN l ELSE 0
    /\ UNCHANGED <<files, cmd, notes, workspace, terminals, sess, registry, timers, now, received,
                   dropped, failBudget, shown>>

\* the terminal is created: the grace timer is set, the caller tracks the
\* handle and shows the terminal
RequestCreate(l) ==
    /\ active = l
    /\ launch[l].pc = "run"
    /\ ~PathUnresolvable(Req(l).entry.cwd, ReqBasePath(l))
    /\ ReqHandling(l) # "skip"
    /\ LET id == Len(sess) + 1
           r == Req(l)
           cwd == ResolveCwd(r.entry.cwd, ReqBasePath(l))
       IN
       /\ sess' = Append(sess, Session(CreatedName(l), cwd, l, launch[l].k, r.g, r.i,
                                       now, r.i = 1))
       /\ received' = Append(received, <<>>)
       /\ terminals' = Append(LiveAfterHandling(l), id)
       /\ registry' = Append(registry, id)
       /\ shown' = Append(shown, Show(id, r.i = 1))
       /\ timers' = timers
               \o <<Timer("grace", now + GraceMs, id, l, "",
                          DispatchBase(cwd, ReqBasePath(l)))>>
               \o StaggerTimers(l, TRUE)
       /\ events' = events \o DisposeEvents(l)
               \o <<Event("create", l, id, launch[l].k, CreatedName(l))>>
    /\ launch' = [launch EXCEPT ![l] = Advanced(l, TRUE)]
    /\ active' = IF launch'[l].pc = "run" THEN l ELSE 0
    /\ UNCHANGED <<files, cmd, notes, workspace, now, dropped, failBudget>>

\* vscode.window.createTerminal throws: the catch shows an error message, no
\* terminal; a live session that replace disposed stays disposed
RequestHostFailure(l) ==
    /\ active = l
    /\ launch[l].pc = "run"
    /\ failBudget > 0
    /\ ~PathUnresolvable(Req(l).entry.cwd, ReqBasePath(l))
    /\ ReqHandling(l) # "skip"
    /\ failBudget' = failBudget - 1
    /\ terminals' = LiveAfterHandling(l)
    /\ events' = events \o DisposeEvents(l)
               \o <<Event("error", l, 0, launch[l].k, "host")>>
    /\ launch' = [launch EXCEPT ![l] = Advanced(l, FALSE)]
    /\ active' = IF launch'[l].pc = "run" THEN l ELSE 0
    /\ UNCHANGED <<files, cmd, notes, workspace, sess, registry, timers, now, received, dropped, shown>>

(* -------------------------- executeTerminalCommands --------------------- *)

\* Source with commands taken before script
Source_CommandsFirst(e) ==
    IF NonEmptyArr(e.commands) THEN "commands"
    ELSE IF TruthyPath(e.script) THEN "script"
    ELSE IF TruthyStr(e.command) THEN "command"
    ELSE "none"

\* the source executeTerminalCommands takes: script, else a non-empty
\* commands array, else command
Source(e) ==
    IF TruthyPath(e.script) THEN "script"
    ELSE IF NonEmptyArr(e.commands) THEN "commands"
    ELSE IF TruthyStr(e.command) THEN "command"
    ELSE "none"

\* config.commandDelay || 100
CommandDelay(e) ==
    IF TruthyNum(e.commandDelay) THEN e.commandDelay[1] ELSE DefaultCommandDelay

\* SentAtOnce without the branch of the single command
SentAtOnce_NoCommand(e, base) ==
    IF Source(e) = "script" THEN <<PathStr(ScriptPath(e.script[1], base))>>
    ELSE <<>>

\* the texts executeTerminalCommands sends at once
SentAtOnce(e, base) ==
    IF Source(e) = "script" THEN <<PathStr(ScriptPath(e.script[1], base))>>
    ELSE IF Source(e) = "command" THEN <<e.command[1]>>
    ELSE <<>>

\* the timers executeTerminalCommands sets: setTimeout(sendText(cmd),
\* index * delay) for each of the commands
CommandTimers(e, sid, l, t) ==
    IF Source(e) = "commands"
    THEN [x \in 1..Len(e.commands[1]) |->
            Timer("command", t + (x - 1) * CommandDelay(e), sid, l,
                  e.commands[1][x], EmptyPath)]
    ELSE <<>>

Text(text, at) == [text |-> text, at |-> at]

Drop(sid, text, at) == [sid |-> sid, text |-> text, at |-> at]

\* ReceivedAfter with the text delivered to a disposed session as well
ReceivedAfter_Disposed(sid, texts) ==
    [received EXCEPT ![sid] = @ \o [x \in 1..Len(texts) |-> Text(texts[x], now)]]

\* terminal.sendText on each of `texts`: a live session receives it, a
\* disposed one does not
ReceivedAfter(sid, texts) ==
    IF IsLive(terminals, sid)
    THEN [received EXCEPT ![sid] = @ \o [x \in 1..Len(texts) |-> Text(texts[x], now)]]
    ELSE received

DroppedAfter(sid, texts) ==
    IF IsLive(terminals, sid) THEN dropped
    ELSE dropped \o [x \in 1..Len(texts) |-> Drop(sid, texts[x], now)]

\* the entry a session was created for
EntryOf(sid) == Requests(launch[sess[sid].by].config)[sess[sid].k].entry

\* Due with a timer firing only after its time has passed
Due_Late(j) == timers[j].due < now

\* a timer may fire once its time has come
Due(j) == timers[j].due <= now

\* the grace timer of a session fires: executeTerminalCommands
ExecuteTerminalCommands(j) ==
    /\ active = 0
    /\ Due(j)
    /\ timers[j].kind = "grace"
    /\ LET t == timers[j]
           e == EntryOf(t.sid)
       IN
       /\ received' = ReceivedAfter(t.sid, SentAtOnce(e, t.base))
       /\ dropped' = DroppedAfter(t.sid, SentAtOnce(e, t.base))
       /\ timers' = RemoveAt(timers, j) \o CommandTimers(e, t.sid, t.l, now)
    /\ UNCHANGED <<files, cmd, notes, launch, active, workspace, terminals, sess, registry, now,
                   events, failBudget, shown>>

\* the timer of one of the commands fires: terminal.sendText(cmd)
SendCommand(j) ==
    /\ active = 0
    /\ Due(j)
    /\ timers[j].kind = "command"
    /\ received' = ReceivedAfter(timers[j].sid, <<timers[j].text>>)
    /\ dropped' = DroppedAfter(timers[j].sid, <<timers[j].text>>)
    /\ timers' = RemoveAt(timers, j)
    /\ UNCHANGED <<files, cmd, notes, launch, active, workspace, terminals, sess, registry, now,
                   events, failBudget, shown>>

\* the stagger is over: launchTerminalGroup goes to the next terminal
ResumeGroup(j) ==
    /\ active = 0
    /\ Due(j)
    /\ timers[j].kind = "stagger"
    /\ launch[timers[j].l].pc = "sleep"
    /\ launch' = [launch EXCEPT ![timers[j].l] = [@ EXCEPT !.pc = "run", !.k = @ + 1]]
    /\ active' = timers[j].l
    /\ timers' = RemoveAt(timers, j)
    /\ UNCHANGED <<files, cmd, notes, workspace, terminals, sess, registry, now, received, dropped,
                   events, failBudget, shown>>

\* the earliest time a pending timer is set for
NextDue == CHOOSE d \in {timers[j].due : j \in 1..Len(timers)} :
               \A j \in 1..Len(timers) : d <= timers[j].due

\* time passes until the next timer is due
Tick ==
    /\ active = 0
    /\ timers # <<>>
    /\ \A j \in 1..Len(timers) : ~Due(j)
    /\ now' = NextDue
    /\ UNCHANGED <<files, cmd, notes, launch, active, workspace, terminals, sess, registry, timers,
                   received, dropped, events, failBudget, shown>>

(* ------------------------------ disposeTerminals ----------------------- *)

InRegistry(id) == \E j \in 1..Len(registry) : registry[j] = id

\* the live sessions the registry holds, in the order forEach disposes them
RECURSIVE DisposedByAll(_)
DisposedByAll(reg) ==
    IF reg = <<>> THEN <<>>
    ELSE (IF IsLive(terminals, Head(reg))
          THEN <<Event("dispose", 0, Head(reg), 0, sess[Head(reg)].name)>>
          ELSE <<>>) \o DisposedByAll(Tail(reg))

\* no launchTerminals call is between its start and its return
Serialized == \A l \in LaunchIds : launch[l].pc \in {"ready", "done"}

\* disposeTerminals without this.terminals = []
DisposeTerminals_KeepsRegistry ==
    /\ active = 0
    /\ Serialized
    /\ terminals' = SelectSeq(terminals, LAMBDA id : ~InRegistry(id))
    /\ events' = events \o DisposedByAll(registry)
    /\ UNCHANGED <<files, cmd, notes, launch, active, workspace, sess, registry, timers, now, received,
                   dropped, failBudget, shown>>

\* disposeTerminals: every tracked handle is disposed, the registry is cleared
DisposeTerminals ==
    /\ active = 0
    /\ Serialized
    /\ terminals' = SelectSeq(terminals, LAMBDA id : ~InRegistry(id))
    /\ registry' = <<>>
    /\ events' = events \o DisposedByAll(registry)
    /\ UNCHANGED <<files, cmd, notes, launch, active, workspace, sess, timers, now, received, dropped,
                   failBudget, shown>>

(* ------------------------------ the extension -------------------------- *)

\* a config file: the directory it is in, whether it can be read, its text
File(dir, readable, content) ==
    [dir |-> dir, readable |-> readable, content |-> content]

\* an invocation of a command of the extension: `found` is what
\* findAllConfigFiles returned to it, answer what its prompt was answered, i
\* the config it is at, l the launchTerminals call it awaits, parsed what
\* parseConfig last returned to it, calls the launchTerminals calls it has
\* made: for each the position of the config and the call
Command(kind) ==
    [kind |-> kind, pc |-> "ready", found |-> <<>>, answer |-> "none",
     i |-> 0, l |-> 0, parsed |-> [kind |-> "none"], calls |-> <<>>]

\* a launchTerminals call made for the config at position i
Made(i, l) == [i |-> i, l |-> l]

\* ProjectPath naming the workspace folder, whatever the config
ProjectPath_Workspace(file) == Path(TRUE, <<"ws">>)

\* path.dirname(selectedConfig.path)
ProjectPath(file) == file.dir

\* a message or a prompt the extension shows
Note(c, kind, text) == [c |-> c, kind |-> kind, text |-> text]

\* parseConfig shows "Failed to read config file" when the read throws
ReadErrors(c, found, from, to) ==
    LET unread == SelectSeq([j \in 1..(to - from + 1) |-> from + j - 1],
                            LAMBDA j : ~found[j].readable)
    IN  [j \in 1..Len(unread) |-> Note(c, "error", "Failed to read config file")]

\* launchCommand from parseConfig(selectedConfig.path) on: it gives up on a
\* config it cannot launch, or calls launchTerminals(config, projectPath)
\* with the directory of the config file
LaunchSelected(c, found, i) ==
    LET parsed == ParseConfig(found[i])
        config == Launchable(parsed)
    IN  IF config = None
        THEN /\ cmd' = [cmd EXCEPT ![c].pc = "done", ![c].found = found,
                                   ![c].answer = IF Len(found) = 1 THEN "none" ELSE "picked",
                                   ![c].i = i, ![c].parsed = parsed]
             /\ notes' = notes \o ReadErrors(c, found, i, i)
                         \o <<Note(c, "error", "Failed to parse terminal configuration file.")>>
             /\ UNCHANGED launch
        ELSE /\ cmd' = [cmd EXCEPT ![c].pc = "launching", ![c].found = found,
                                   ![c].answer = IF Len(found) = 1 THEN "none" ELSE "picked",
                                   ![c].i = i, ![c].l = Len(launch) + 1,
                                   ![c].parsed = parsed,
                                   ![c].calls = Append(@, Made(i, Len(launch) + 1))]
             /\ launch' = Append(launch, Call(config[1], Some(ProjectPath(found[i]))))
             /\ UNCHANGED notes

\* the command terminalLauncher.launchTerminals up to its first wait: no
\* workspace folder or no config is an error; one config is launched; more
\* are offered in a quick pick
LaunchCommand(c) ==
    /\ active = 0
    /\ cmd[c].kind = "launchTerminals"
    /\ cmd[c].pc = "ready"
    /\ IF workspace = None
       THEN /\ cmd' = [cmd EXCEPT ![c].pc = "done"]
            /\ notes' = Append(notes, Note(c, "error", "No workspace folder is open."))
            /\ UNCHANGED launch
       ELSE IF files = <<>>
       THEN /\ cmd' = [cmd EXCEPT ![c].pc = "done"]
            /\ notes' = Append(notes, Note(c, "error", "No terminal configuration files found. Workspace root: ..."))
            /\ UNCHANGED launch
       ELSE IF Len(files) = 1
       THEN LaunchSelected(c, files, 1)
       ELSE /\ cmd' = [cmd EXCEPT ![c].pc = "pick", ![c].found = files]
            /\ notes' = Append(notes, Note(c, "pick", "Select project to launch terminals for"))
            /\ UNCHANGED launch
    /\ UNCHANGED <<active, workspace, terminals, sess, registry, timers, now,
                   received, dropped, events, failBudget, shown, files>>

\* the quick pick of the configs is answered with one of them, or dismissed
\* (choice 0)
LaunchCommandPick(c) ==
    /\ active = 0
    /\ cmd[c].kind = "launchTerminals"
    /\ cmd[c].pc = "pick"
    /\ \E choice \in 0..Len(cmd[c].found) :
         IF choice = 0
         THEN /\ cmd' = [cmd EXCEPT ![c].pc = "done", ![c].answer = "dismiss"]
              /\ UNCHANGED <<launch, notes>>
         ELSE LaunchSelected(c, cmd[c].found, choice)
    /\ UNCHANGED <<active, workspace, terminals, sess, registry, timers, now,
                   received, dropped, events, failBudget, shown, files>>

\* launchTerminals has returned to the command, which shows "Terminals
\* launched for ..."
LaunchCommandReturn(c) ==
    /\ active = 0
    /\ cmd[c].kind = "launchTerminals"
    /\ cmd[c].pc = "launching"
    /\ launch[cmd[c].l].pc = "done"
    /\ cmd' = [cmd EXCEPT ![c].pc = "done"]
    /\ notes' = Append(notes, Note(c, "info", "Terminals launched for"))
    /\ UNCHANGED <<launch, active, workspace, terminals, sess, registry, timers,
                   now, received, dropped, events, failBudget, shown, files>>

\* LaunchableFrom with the loop ending at the first config it cannot launch
LaunchableFrom_UpToFailure(parsed, i) ==
    {j \in i..Len(parsed) : \A x \in i..j : Launchable(parsed[x]) # None}

\* the positions from i on of the configs that parseConfig gives a
\* launchable value for, parsed[j] being what it returns for config j
LaunchableFrom(parsed, i) ==
    {j \in i..Len(parsed) : Launchable(parsed[j]) # None}

\* the loop of launchAllTerminals from config i on, with the positions
\* `todo` still to launch: none is left and "Launched terminals for N
\* projects!" is shown, or the first one is launched and awaited; the
\* configs before it were passed over
LaunchFirst(c, found, i, parsed, todo) ==
    IF todo = {}
    THEN /\ cmd' = [cmd EXCEPT ![c].pc = "done", ![c].found = found,
                               ![c].answer = "Yes", ![c].i = Len(found) + 1]
         /\ notes' = notes \o ReadErrors(c, found, i, Len(found))
                     \o <<Note(c, "info", "Launched terminals for N projects!")>>
         /\ UNCHANGED launch
    ELSE LET j == CHOOSE x \in todo : \A y \in todo : x <= y
         IN  /\ cmd' = [cmd EXCEPT ![c].pc = "launching", ![c].found = found,
                                   ![c].answer = "Yes",
                                   ![c].i = j, ![c].l = Len(launch) + 1,
                                   ![c].parsed = parsed[j],
                                   ![c].calls = Append(@, Made(j, Len(launch) + 1))]
             /\ launch' = Append(launch,
                                 Call(Launchable(parsed[j])[1],
                                      Some(ProjectPath(found[j]))))
             /\ notes' = notes \o ReadErrors(c, found, i, j)

\* the same, parseConfig being applied to each config the loop reaches
LaunchNext(c, found, i, parsed) ==
    LaunchFirst(c, found, i, parsed, LaunchableFrom(parsed, i))

LaunchFrom(c, found, i) ==
    LaunchNext(c, found, i, [j \in 1..Len(found) |-> ParseConfig(found[j])])

\* the command terminalLauncher.launchAllTerminals up to its first wait: no
\* config is an error, otherwise it asks for a confirmation
LaunchAllCommand(c) ==
    /\ active = 0
    /\ cmd[c].kind = "launchAllTerminals"
    /\ cmd[c].pc = "ready"
    /\ IF workspace = None \/ files = <<>>
       THEN /\ cmd' = [cmd EXCEPT ![c].pc = "done"]
            /\ notes' = Append(notes, Note(c, "error", "No terminal configuration files found."))
       ELSE /\ cmd' = [cmd EXCEPT ![c].pc = "confirm", ![c].found = files]
            /\ notes' = Append(notes, Note(c, "warning", "Launch terminals for all N projects?"))
    /\ UNCHANGED <<launch, active, workspace, terminals, sess, registry, timers,
                   now, received, dropped, events, failBudget, shown, files>>

\* the answers to the confirmation: one of its two items, or a dismissal
Confirmations == {"Yes", "No", "dismiss"}

\* the confirmation is answered: anything but Yes ends the command
LaunchAllConfirm(c) ==
    /\ active = 0
    /\ cmd[c].kind = "launchAllTerminals"
    /\ cmd[c].pc = "confirm"
    /\ \E answer \in Confirmations :
         IF answer # "Yes"
         THEN /\ cmd' = [cmd EXCEPT ![c].pc = "done", ![c].answer = answer]
              /\ UNCHANGED <<launch, notes>>
         ELSE LaunchFrom(c, cmd[c].found, 1)
    /\ UNCHANGED <<active, workspace, terminals, sess, registry, timers, now,
                   received, dropped, events, failBudget, shown, files>>

\* launchTerminals has returned to the loop, which goes on with the next config
LaunchAllResume(c) ==
    /\ active = 0
    /\ cmd[c].kind = "launchAllTerminals"
    /\ cmd[c].pc = "launching"
    /\ launch[cmd[c].l].pc = "done"
    /\ LaunchFrom(c, cmd[c].found, cmd[c].i + 1)
    /\ UNCHANGED <<active, workspace, terminals, sess, registry, timers, now,
                   received, dropped, events, failBudget, shown, files>>

\* terminalManager.launchTerminals(config): the launch at activation passes
\* no project path
CheckAndLaunchCall(config, file) == Call(config, None)

\* checkAndLaunchTerminals, which activate() calls, up to its first wait:
\* findConfigFile gives the first config found, if any; when parseConfig
\* gives a value that `if (config)` accepts it asks whether to launch
CheckAndLaunchTerminals(c) ==
    /\ active = 0
    /\ cmd[c].kind = "checkAndLaunchTerminals"
    /\ cmd[c].pc = "ready"
    /\ IF workspace = None \/ files = <<>>
       THEN /\ cmd' = [cmd EXCEPT ![c].pc = "done"]
            /\ UNCHANGED notes
       ELSE LET parsed == ParseConfig(files[1]) IN
            IF Launchable(parsed) = None
            THEN /\ cmd' = [cmd EXCEPT ![c].pc = "done", ![c].found = files,
                                       ![c].i = 1, ![c].parsed = parsed]
                 /\ notes' = notes \o ReadErrors(c, files, 1, 1)
            ELSE /\ cmd' = [cmd EXCEPT ![c].pc = "confirm", ![c].found = files,
                                       ![c].i = 1, ![c].parsed = parsed]
                 /\ notes' = Append(notes, Note(c, "info", "Terminal configuration found. Launch terminals now?"))
    /\ UNCHANGED <<launch, active, workspace, terminals, sess, registry, timers,
                   now, received, dropped, events, failBudget, shown, files>>

\* the question is answered: on Yes launchTerminals(config) is called and
\* awaited, anything else ends the function
CheckAndLaunchAnswer(c) ==
    /\ active = 0
    /\ cmd[c].kind = "checkAndLaunchTerminals"
    /\ cmd[c].pc = "confirm"
    /\ \E answer \in Confirmations :
         IF answer # "Yes"
         THEN /\ cmd' = [cmd EXCEPT ![c].pc = "done", ![c].answer = answer]
              /\ UNCHANGED launch
         ELSE /\ cmd' = [cmd EXCEPT ![c].pc = "launching", ![c].answer = "Yes",
                                    ![c].l = Len(launch) + 1,
                                    ![c].calls = Append(@, Made(1, Len(launch) + 1))]
              /\ launch' = Append(launch,
                                  CheckAndLaunchCall(Launchable(cmd[c].parsed)[1],
                                                     cmd[c].found[1]))
    /\ UNCHANGED <<notes, active, workspace, terminals, sess, registry, timers,
                   now, received, dropped, events, failBudget, shown, files>>

\* launchTerminals has returned to checkAndLaunchTerminals, which ends
CheckAndLaunchReturn(c) ==
    /\ active = 0
    /\ cmd[c].kind = "checkAndLaunchTerminals"
    /\ cmd[c].pc = "launching"
    /\ launch[cmd[c].l].pc = "done"
    /\ cmd' = [cmd EXCEPT ![c].pc = "done"]
    /\ UNCHANGED <<launch, notes, active, workspace, terminals, sess, registry,
                   timers, now, received, dropped, events, failBudget, shown, files>>

\* FileCreated launching as well
FileCreated_Launches(file) ==
    /\ active = 0
    /\ workspace # None
    /\ Len(files) < MaxFiles
    /\ files' = Append(files, file)
    /\ notes' = Append(notes, Note(0, "info", "Terminal configuration file detected."))
    /\ launch' = Append(launch, Call(Config(None, None), None))
    /\ UNCHANGED <<active, workspace, terminals, sess, registry, timers,
                   now, received, dropped, events, failBudget, shown, cmd>>

\* a config file is created in the workspace: the watcher's onDidCreate
\* shows a message
FileCreated(file) ==
    /\ active = 0
    /\ workspace # None
    /\ Len(files) < MaxFiles
    /\ files' = Append(files, file)
    /\ notes' = Append(notes, Note(0, "info", "Terminal configuration file detected."))
    /\ UNCHANGED <<launch, active, workspace, terminals, sess, registry, timers,
                   now, received, dropped, events, failBudget, shown, cmd>>

(* ---------------------------------- Next ------------------------------- *)

Next ==
    \/ \E l \in LaunchIds : StartLaunchPrompt(l)
    \/ \E l \in LaunchIds : StartLaunchProceed(l)
    \/ \E l \in LaunchIds : AnswerPrompt(l)
    \/ \E l \in LaunchIds : RequestPathError(l)
    \/ \E l \in LaunchIds : RequestSkip(l)
    \/ \E l \in LaunchIds : RequestCreate(l)
    \/ \E l \in LaunchIds : RequestHostFailure(l)
    \/ \E j \in 1..Len(timers) : ExecuteTerminalCommands(j)
    \/ \E j \in 1..Len(timers) : SendCommand(j)
    \/ \E j \in 1..Len(timers) : ResumeGroup(j)
    \/ Tick
    \/ DisposeTerminals

(* --------------------------------- inputs ------------------------------ *)

\* the sequences over S of length at most n
SeqsUpTo(S, n) == UNION {[1..m -> S] : m \in 0..n}

\* s cut into groups after the positions in `cuts`
RECURSIVE SplitFrom(_, _, _)
SplitFrom(s, cuts, from) ==
    IF from > Len(s) THEN <<>>
    ELSE LET ends == {c \in cuts : c >= from} \cup {Len(s)}
             to == CHOOSE c \in ends : \A d \in ends : c <= d
         IN <<Group(Some(SubSeq(s, from, to)))>> \o SplitFrom(s, cuts, to + 1)

ProjectDir == Path(TRUE, <<"w", "proj">>)

WorkspaceRoot == Path(TRUE, <<"ws">>)

Input(config, base, ws, live) ==
    [config |-> config, base |-> base, ws |-> ws, live |-> live]

\* the names of the sessions that are live before a launch with `base`: the
\* effective name of "A" and its first renaming
LiveNameChoices(base) ==
    {EffectiveName(base, "A"), Numbered(EffectiveName(base, "A"), FirstCounter)}

\* entry A has a single command; entry B has a relative cwd and no command;
\* entry C has a relative cwd and a commands array
EntryA == Entry("A", None, None, None, Some("run a"), None)

EntryB == Entry("B", Some(Path(FALSE, <<"sub">>)), None, None, None, None)

EntryC == Entry("C", Some(Path(FALSE, <<"sub">>)), None, Some(<<"c1", "c2">>), None, None)

\* where a launch can be made from: no base and no workspace, the workspace
\* alone, or a project directory
Places == {<<None, None>>, <<None, Some(WorkspaceRoot)>>,
           <<Some(ProjectDir), Some(WorkspaceRoot)>>}

\* the configurations of the orchestration: every batch of at most
\* MaxRequests entries, ungrouped or cut into groups in every way, a grouped
\* one with or without an ungrouped list beside it
UngroupedConfigs ==
    {Config(None, Some(s)) : s \in SeqsUpTo({EntryA, EntryB}, MaxRequests)}
    \cup {Config(Some(<<>>), Some(<<EntryA>>)), Config(None, None)}

GroupedConfigs ==
    {Config(Some(SplitFrom(s, cuts, 1)), t) :
        s \in SeqsUpTo({EntryA, EntryB}, MaxRequests) \ {<<>>},
        cuts \in SUBSET (1..(MaxRequests - 1)),
        t \in {None, Some(<<EntryB>>)}}
    \cup {Config(Some(<<Group(Some(<<>>)), Group(None), Group(Some(<<EntryA>>))>>),
                 Some(<<EntryB>>)),
          Config(Some(<<Group(None)>>), Some(<<EntryA>>))}

OrchInputs ==
    UNION {{Input(c, p[1], p[2], live) :
               c \in UngroupedConfigs \cup GroupedConfigs,
               live \in SeqsUpTo(LiveNameChoices(p[1]), MaxLive)} : p \in Places}

\* a small set of launches in which every operation happens
CoreInputs ==
    {Input(Config(Some(<<Group(Some(<<EntryA, EntryC>>))>>), Some(<<EntryB>>)),
           p[1], p[2], live) :
        p \in Places, live \in {<<>>, <<"A">>}}

\* a longer batch: a group of three, its middle entry named as a live session
\* may be, and a second group after it
StaggerInputs ==
    {Input(Config(Some(<<Group(Some(<<EntryB, EntryA, EntryB>>)),
                         Group(Some(<<EntryA>>))>>), None),
           None, Some(WorkspaceRoot), live) :
        live \in {<<>>, <<"A">>}}

\* the configurations of two calls that may interleave: a single entry, a
\* group of two that waits between them, and two entries of one name
RaceConfigs ==
    {Config(None, Some(<<EntryA>>)),
     Config(Some(<<Group(Some(<<EntryB, EntryA>>))>>), None),
     Config(None, Some(<<EntryA, EntryA>>))}

RaceInputs ==
    {Input(c, None, Some(WorkspaceRoot), live) :
        c \in RaceConfigs, live \in {<<>>, <<"A">>, <<"A", "A">>}}

\* launches in which every operation happens
RaceCoreInputs ==
    {Input(Config(None, Some(<<EntryC>>)), None, ws, <<>>) :
        ws \in {None, Some(WorkspaceRoot)}}

\* the entries of the dispatch: every combination of the three command
\* sources and the delay
DispatchEntries ==
    {Entry("A", None, script, commands, command, delay) :
        script \in {None, Some(EmptyPath), Some(Path(FALSE, <<"run.sh">>)),
                    Some(Path(TRUE, <<"bin", "s">>))},
        commands \in {None} \cup {Some(s) : s \in SeqsUpTo({"c1", "c2"}, MaxCommands)},
        command \in {None, Some(""), Some("c")},
        delay \in {None, Some(0), Some(50), Some(250)}}

DispatchInputs ==
    {Input(Config(None, Some(<<e>>)), base, Some(WorkspaceRoot), live) :
        e \in DispatchEntries, base \in {None, Some(ProjectDir)},
        live \in {<<>>, <<"A">>}}

\* the working directories of the path resolution
CwdChoices ==
    {None, Some(EmptyPath), Some(Path(FALSE, <<".", "x">>)),
     Some(Path(FALSE, <<"x", "y">>)), Some(Path(FALSE, <<"..", "x">>)),
     Some(Path(TRUE, <<"abs">>)), Some(Path(TRUE, <<"abs", "..", "z">>))}

PathInputs ==
    {Input(Config(None, Some(<<Entry("A", cwd, script, None, Some("run"), None)>>)),
           base, ws, live) :
        cwd \in CwdChoices,
        script \in {None, Some(Path(FALSE, <<"run.sh">>)), Some(Path(TRUE, <<"bin", "s">>))},
        base \in {None, Some(EmptyPath), Some(Path(TRUE, <<"root">>)), Some(ProjectDir)},
        ws \in {None, Some(WorkspaceRoot)},
        live \in {<<>>, <<"A">>}}

\* ---- the inputs of the parser

\* a line of a custom-format file as it is written, and what it says: a
\* header and its name, a recognized key and its value (for commands: its
\* segments), or nothing
HeaderLine(text, name) ==
    [text |-> text, kind |-> "header", name |-> name, key |-> "", value |-> <<>>]

KeyLine(text, key, value) ==
    [text |-> text, kind |-> "key", name |-> <<>>, key |-> key, value |-> value]

OtherLine(text) ==
    [text |-> text, kind |-> "other", name |-> <<>>, key |-> "", value |-> <<>>]

\* a plain header
LineHeaderA ==
    HeaderLine(<<"[", "a", "]">>, <<"a">>)

\* a header with spaces around it and in its name
LineHeaderSpaced ==
    HeaderLine(<<" ", "[", "b", " ", "c", "]", " ">>, <<"b", " ", "c">>)

\* a header that is also a JSON array when it stands alone
LineHeaderOne ==
    HeaderLine(<<"[", "1", "]">>, <<"1">>)

\* a key with spaces around the =
LineCwd ==
    KeyLine(<<"c", "w", "d", " ", "=", " ", "x">>, "cwd", <<"x">>)

\* a key with an empty value
LineCwdEmpty ==
    KeyLine(<<"c", "w", "d", "=">>, "cwd", <<>>)

\* a value with an = of its own
LineCommand ==
    KeyLine(<<"c", "o", "m", "m", "a", "n", "d", "=", "a", "=", "b">>,
        "command", <<"a", "=", "b">>)

\* the commands key: segments a, b and c
LineCommands ==
    KeyLine(<<" ", "c", "o", "m", "m", "a", "n", "d", "s", " ", "=", " ",
        "a", " ", ";", " ", "b", ";", "c", " ">>, "commands", <<<<"a">>,
        <<"b">>, <<"c">>>>)

\* a line of spaces
LineBlank ==
    OtherLine(<<" ", " ">>)

\* a comment that holds a key line
LineComment ==
    OtherLine(<<"#", " ", "c", "w", "d", "=", "y">>)

\* a key the grammar does not know
LineUnknownKey ==
    OtherLine(<<"n", "a", "m", "e", " ", "=", " ", "z">>)

\* a line with neither a header nor an =
LineNoEquals ==
    OtherLine(<<"s", "c", "r", "i", "p", "t">>)

ParseLineChoices ==
    {LineHeaderA, LineHeaderSpaced, LineHeaderOne, LineCwd, LineCwdEmpty,
     LineCommand, LineCommands, LineBlank, LineComment, LineUnknownKey,
     LineNoEquals}

\* the text of a file written as the lines ls
TextOf(ls) == JoinWith([i \in 1..Len(ls) |-> ls[i].text], "\n")

\* the custom-format files of at most MaxLines lines
CustomLines == SeqsUpTo(ParseLineChoices, MaxLines)

\* JSON documents: the text of each and the value it denotes
Doc(text, value) == [text |-> text, value |-> value]

DocNull ==
    Doc(<<"n", "u", "l", "l">>,
        JNull)

DocNumber ==
    Doc(<<"4", "2">>,
        JNum(<<"4", "2">>))

DocEmpty ==
    Doc(<<"{", "}">>,
        JObj(<<>>))

DocTerminals ==
    Doc(<<"{", "\"", "t", "e", "r", "m", "i", "n", "a", "l", "s", "\"", ":",
        " ", "[", "{", "\"", "n", "a", "m", "e", "\"", ":", " ", "\"", "B",
        "\"", ",", " ", "\"", "c", "w", "d", "\"", ":", " ", "\"", "s", "u",
        "b", "\"", "}", "]", "}">>,
        JObj(<<<<<<"t", "e", "r", "m", "i", "n", "a", "l", "s">>,
        JArr(<<JObj(<<<<<<"n", "a", "m", "e">>, JStr(<<"B">>)>>, <<<<"c", "w",
        "d">>, JStr(<<"s", "u", "b">>)>>>>)>>)>>>>))

DocGroups ==
    Doc(<<"{", "\"", "g", "r", "o", "u", "p", "s", "\"", ":", "[", "{", "\"",
        "t", "e", "r", "m", "i", "n", "a", "l", "s", "\"", ":", "[", "{",
        "\"", "n", "a", "m", "e", "\"", ":", "\"", "A", "\"", ",", "\"", "c",
        "o", "m", "m", "a", "n", "d", "\"", ":", "\"", "r", "u", "n", " ",
        "a", "\"", "}", ",", "{", "\"", "n", "a", "m", "e", "\"", ":", "\"",
        "B", "\"", "}", "]", "}", "]", "}", "\n">>,
        JObj(<<<<<<"g", "r", "o", "u", "p", "s">>, JArr(<<JObj(<<<<<<"t", "e",
        "r", "m", "i", "n", "a", "l", "s">>, JArr(<<JObj(<<<<<<"n", "a", "m",
        "e">>, JStr(<<"A">>)>>, <<<<"c", "o", "m", "m", "a", "n", "d">>,
        JStr(<<"r", "u", "n", " ", "a">>)>>>>), JObj(<<<<<<"n", "a", "m",
        "e">>, JStr(<<"B">>)>>>>)>>)>>>>)>>)>>>>))

JsonDocs == {DocNull, DocNumber, DocEmpty, DocTerminals, DocGroups}

\* the files parseConfig is applied to: every custom-format file, every JSON
\* document, and a file that cannot be read
ParseInputs ==
    {File(ProjectDir, TRUE, TextOf(ls)) : ls \in CustomLines}
    \cup {File(ProjectDir, TRUE, d.text) : d \in JsonDocs}
    \cup {File(ProjectDir, FALSE, <<>>)}

\* ---- the inputs of the commands

\* the config files of a workspace: a custom-format file with one terminal A
\* that has a command, a JSON file with a group of two terminals, a file
\* that cannot be read, and a JSON file that holds null
FileA ==
    File(Path(TRUE, <<"ws", "p1">>), TRUE, TextOf(<<LineHeaderA, LineCommand>>))

FileG == File(Path(TRUE, <<"ws", "p2">>), TRUE, DocGroups.text)

FileUnreadable == File(Path(TRUE, <<"ws", "p3">>), FALSE, <<>>)

FileNull == File(Path(TRUE, <<"ws", "p4">>), TRUE, DocNull.text)

\* what findAllConfigFiles can return: at most MaxFiles of them in any
\* order, and one longer list with an unreadable file in the middle
FileLists ==
    SeqsUpTo({FileA, FileG, FileUnreadable, FileNull}, MaxFiles)
    \cup {<<FileG, FileUnreadable, FileA>>}

\* the files that are created while the extension runs
CreatedFiles == {FileA}

CommandKinds == {"launchTerminals", "launchAllTerminals"}

\* the name the session of FileA gets, which may be live before the command
LiveBefore == {<<>>, <<EffectiveName(Some(FileA.dir), "a")>>}

(* ---------------------------------- Init ------------------------------- *)

\* the state after construction (the registry is empty), in a host that
\* holds the sessions `live`, about to make one launchTerminals call
InitWith(inputs) ==
    \E in \in inputs :
        /\ launch = <<Call(in.config, in.base)>>
        /\ workspace = in.ws
        /\ terminals = [j \in 1..Len(in.live) |-> j]
        /\ sess = [j \in 1..Len(in.live) |->
                     Session(in.live[j], None, 0, 0, 0, 0, 0, FALSE)]
        /\ received = [j \in 1..Len(in.live) |-> <<>>]
    /\ active = 0
    /\ registry = <<>>
    /\ timers = <<>>
    /\ now = 0
    /\ dropped = <<>>
    /\ events = <<>>
    /\ failBudget = MaxHostFailures
    /\ shown = <<>>
    /\ files = <<>>
    /\ cmd = <<>>
    /\ notes = <<>>

Init == InitWith(OrchInputs \cup CoreInputs \cup StaggerInputs)

Spec == Init /\ [][Next]_vars

InitDispatch == InitWith(DispatchInputs \cup CoreInputs)

SpecDispatch == InitDispatch /\ [][Next]_vars

InitPath == InitWith(PathInputs \cup CoreInputs)

SpecPath == InitPath /\ [][Next]_vars

\* the same, about to make two launchTerminals calls, which may interleave
\* where a call awaits: the first with an input of `inputs`, the second with
\* a configuration of `configs` and the same project path
InitTwo(inputs, configs) ==
    \E in \in inputs : \E c \in configs :
        /\ launch = <<Call(in.config, in.base), Call(c, in.base)>>
        /\ workspace = in.ws
        /\ terminals = [j \in 1..Len(in.live) |-> j]
        /\ sess = [j \in 1..Len(in.live) |->
                     Session(in.live[j], None, 0, 0, 0, 0, 0, FALSE)]
        /\ received = [j \in 1..Len(in.live) |-> <<>>]
    /\ active = 0
    /\ registry = <<>>
    /\ timers = <<>>
    /\ now = 0
    /\ dropped = <<>>
    /\ events = <<>>
    /\ failBudget = MaxHostFailures
    /\ shown = <<>>
    /\ files = <<>>
    /\ cmd = <<>>
    /\ notes = <<>>

InitRace == InitTwo(RaceInputs \cup RaceCoreInputs, RaceConfigs)

SpecRace == InitRace /\ [][Next]_vars

\* the state after activation in a workspace that holds the one config file
\* `file`, about to run the launch command, with no session live
InitParse ==
    /\ \E file \in ParseInputs : files = <<file>>
    /\ cmd = <<Command("launchTerminals")>>
    /\ notes = <<>>
    /\ launch = <<>>
    /\ workspace = Some(WorkspaceRoot)
    /\ terminals = <<>>
    /\ sess = <<>>
    /\ received = <<>>
    /\ active = 0
    /\ registry = <<>>
    /\ timers = <<>>
    /\ now = 0
    /\ dropped = <<>>
    /\ events = <<>>
    /\ failBudget = MaxHostFailures
    /\ shown = <<>>

\* the launch command up to the launchTerminals call: it applies parseConfig
NextParse == \E c \in 1..Len(cmd) : LaunchCommand(c)

SpecParse == InitParse /\ [][NextParse]_vars

\* the state after activation, about to run one command of the extension:
\* in a workspace that holds the config files fs, or with no folder open
InitCommand ==
    /\ \E ws \in {None, Some(WorkspaceRoot)} :
         /\ workspace = ws
         /\ \E fs \in (IF ws = None THEN {<<>>} ELSE FileLists) : files = fs
    /\ \E kind \in CommandKinds : cmd = <<Command(kind)>>
    /\ \E live \in LiveBefore :
         /\ terminals = [j \in 1..Len(live) |-> j]
         /\ sess = [j \in 1..Len(live) |->
                      Session(live[j], None, 0, 0, 0, 0, 0, FALSE)]
         /\ received = [j \in 1..Len(live) |-> <<>>]
    /\ notes = <<>>
    /\ launch = <<>>
    /\ active = 0
    /\ registry = <<>>
    /\ timers = <<>>
    /\ now = 0
    /\ dropped = <<>>
    /\ events = <<>>
    /\ failBudget = MaxHostFailures
    /\ shown = <<>>

\* the commands of the extension and the file watcher, over the orchestrator
NextCommands ==
    \/ Next
    \/ \E c \in 1..Len(cmd) : LaunchCommand(c)
    \/ \E c \in 1..Len(cmd) : LaunchCommandPick(c)
    \/ \E c \in 1..Len(cmd) : LaunchCommandReturn(c)
    \/ \E c \in 1..Len(cmd) : LaunchAllCommand(c)
    \/ \E c \in 1..Len(cmd) : LaunchAllConfirm(c)
    \/ \E c \in 1..Len(cmd) : LaunchAllResume(c)
    \/ \E file \in CreatedFiles : FileCreated(file)

\* one command, or one direct launchTerminals call
SpecCommands == (InitCommand \/ InitWith(CoreInputs)) /\ [][NextCommands]_vars

\* the ways a launch is started: at activation, or by one of the commands
EntryPoints == {"checkAndLaunchTerminals"} \cup CommandKinds

\* the workspaces of the relaunch: none or one config file, which holds a
\* terminal or null
EntryFiles == {<<>>, <<FileA>>, <<FileNull>>}

\* the state after construction, activation being about to call
\* checkAndLaunchTerminals or a command being about to run, with one more
\* command that is run at any moment; no session is live
InitEntry ==
    /\ workspace = Some(WorkspaceRoot)
    /\ \E fs \in EntryFiles : files = fs
    /\ \E first \in EntryPoints : \E second \in CommandKinds :
         cmd = <<Command(first), Command(second)>>
    /\ terminals = <<>>
    /\ sess = <<>>
    /\ received = <<>>
    /\ notes = <<>>
    /\ launch = <<>>
    /\ active = 0
    /\ registry = <<>>
    /\ timers = <<>>
    /\ now = 0
    /\ dropped = <<>>
    /\ events = <<>>
    /\ failBudget = MaxHostFailures
    /\ shown = <<>>

\* the launch at activation and the commands, over the orchestrator, in a
\* workspace whose one config file stays as it is
NextEntry ==
    \/ Next
    \/ \E c \in 1..Len(cmd) : CheckAndLaunchTerminals(c)
    \/ \E c \in 1..Len(cmd) : CheckAndLaunchAnswer(c)
    \/ \E c \in 1..Len(cmd) : CheckAndLaunchReturn(c)
    \/ \E c \in 1..Len(cmd) : LaunchCommand(c)
    \/ \E c \in 1..Len(cmd) : LaunchCommandReturn(c)
    \/ \E c \in 1..Len(cmd) : LaunchAllCommand(c)
    \/ \E c \in 1..Len(cmd) : LaunchAllConfirm(c)
    \/ \E c \in 1..Len(cmd) : LaunchAllResume(c)

\* two entry points one after the other or interleaved, or one direct
\* launchTerminals call
SpecEntry == (InitEntry \/ InitWith(CoreInputs)) /\ [][NextEntry]_vars

\* What the event loop guarantees: a call that was made starts, a call that
\* is in its loops handles its next request (whatever the outcome), time
\* passes, and a timer that is due fires. Nothing guarantees that the quick
\* pick is ever answered or that disposeTerminals is ever called.
LoopFairness ==
    /\ WF_vars(\E l \in LaunchIds : StartLaunchPrompt(l) \/ StartLaunchProceed(l))
    /\ WF_vars(\E l \in LaunchIds : \/ RequestPathError(l)
                                    \/ RequestSkip(l)
                                    \/ RequestCreate(l)
                                    \/ RequestHostFailure(l))
    /\ WF_vars(\E j \in 1..Len(timers) : ExecuteTerminalCommands(j))
    /\ WF_vars(\E j \in 1..Len(timers) : SendCommand(j))
    /\ WF_vars(\E j \in 1..Len(timers) : ResumeGroup(j))
    /\ WF_vars(Tick)

\* one launchTerminals call, run by the event loop
SpecLive == Init /\ [][Next]_vars /\ LoopFairness

(* ------------------------- what the claims speak of -------------------- *)

\* the sessions launch l created
Created(l) == {id \in 1..Len(sess) : sess[id].by = l}

\* the events of launch l with operation op
EventsOf(l, op) == {j \in 1..Len(events) : events[j].l = l /\ events[j].op = op}

\* the launch has returned
Returned(l) == launch[l].pc = "done"

\* the names of the sessions that were live when launch l checked for
\* duplicates
NamesAtCheck(l) == LiveNames(launch[l].liveAtCheck, sess)

\* the entries of all groups of a configuration, as (group, index) pairs
GroupSlots(c) ==
    IF IsSome(c.groups)
    THEN {<<g, i>> \in (1..Len(c.groups[1])) \X (1..MaxRequests + 1) :
             /\ IsSome(c.groups[1][g].terminals)
             /\ i <= Len(c.groups[1][g].terminals[1])}
    ELSE {}

\* `name` is the effective name of an entry called entryName in launch l, or
\* that name with a counter appended
NamedAfter(l, name, entryName) ==
    \/ name = EffectiveName(launch[l].base, entryName)
    \/ \E n \in FirstCounter..(FirstCounter + Len(sess)) :
           name = Numbered(EffectiveName(launch[l].base, entryName), n)

\* a step in which launch l handles one request
HandlesRequest(l) == active = l /\ launch[l].pc = "run" /\ events' # events

(* ---------------------------------- C1 --------------------------------- *)

\* C1: when config.groups is non-empty every session the launch creates
\* belongs to an entry of a group and none to config.terminals; a session
\* belongs to config.terminals only when groups is absent or empty; and a
\* launch that proceeds without a failure creates one session per entry of
\* the list it launches.
C1_GroupsExcludeTerminals ==
    \A l \in LaunchIds :
        LET c == launch[l].config IN
        /\ \A id \in Created(l) :
             IF NonEmptyArr(c.groups)
             THEN /\ <<sess[id].g, sess[id].i>> \in GroupSlots(c)
                  /\ NamedAfter(l, sess[id].name,
                                c.groups[1][sess[id].g].terminals[1][sess[id].i].name)
             ELSE /\ sess[id].g = 0
                  /\ IsSome(c.terminals)
                  /\ sess[id].i \in 1..Len(c.terminals[1])
                  /\ NamedAfter(l, sess[id].name, c.terminals[1][sess[id].i].name)
        /\ (Returned(l) /\ launch[l].policy = "proceed" /\ EventsOf(l, "error") = {})
             => Cardinality(Created(l)) =
                  IF NonEmptyArr(c.groups) THEN Cardinality(GroupSlots(c))
                  ELSE IF IsSome(c.terminals) THEN Len(c.terminals[1]) ELSE 0

\* a launch of a configuration with a group and a non-empty ungrouped list
\* has returned and created a session
C1_Witness ==
    \E l \in LaunchIds :
        /\ Returned(l)
        /\ NonEmptyArr(launch[l].config.groups)
        /\ NonEmptyArr(launch[l].config.terminals)
        /\ Created(l) # {}
        /\ EventsOf(l, "error") = {}

(* ---------------------------------- C2 --------------------------------- *)

\* C2: a launch whose conflict choice is cancel, or whose prompt is
\* dismissed, has returned, and it created no session, disposed none, added
\* nothing to the registry and scheduled no text dispatch.
C2_CancelDoesNothing ==
    \A l \in LaunchIds :
        launch[l].answer \in {"cancel", "dismiss"} =>
            /\ Returned(l)
            /\ Created(l) = {}
            /\ \A j \in 1..Len(events) : events[j].l = l => events[j].op = "prompt"
            /\ \A j \in 1..Len(launch[l].liveAtCheck) :
                   IsLive(terminals, launch[l].liveAtCheck[j])
                   \/ \E x \in EventsOf(0, "dispose") :
                          events[x].sid = launch[l].liveAtCheck[j]
            /\ \A j \in 1..Len(registry) : sess[registry[j]].by # l
            /\ \A j \in 1..Len(timers) : timers[j].l # l

\* a launch with requests to make whose prompt was dismissed
C2_Witness ==
    \E l \in LaunchIds :
        /\ launch[l].answer = "dismiss"
        /\ Returned(l)
        /\ Requests(launch[l].config) # <<>>

(* ---------------------------------- C3 --------------------------------- *)

\* C3: under policy skip no session is created for a request whose
\* effective name is the name of a session that was live before the launch;
\* that session stays live; a skipped request is not in the registry and
\* is not reported as an error.
C3_SkipKeepsExisting ==
    \A l \in LaunchIds :
        launch[l].policy = "skip" =>
            /\ \A id \in Created(l) :
                   /\ sess[id].name \notin NamesAtCheck(l)
                   /\ EffectiveName(launch[l].base, EntryOf(id).name)
                          \notin NamesAtCheck(l)
            /\ EventsOf(l, "dispose") = {}
            /\ \A j \in 1..Len(launch[l].liveAtCheck) :
                   IsLive(terminals, launch[l].liveAtCheck[j])
                   \/ \E x \in EventsOf(0, "dispose") :
                          events[x].sid = launch[l].liveAtCheck[j]
            /\ \A x \in EventsOf(l, "skip") :
                   /\ \A y \in EventsOf(l, "error") \cup EventsOf(l, "create") :
                          events[y].k # events[x].k
                   /\ \A j \in 1..Len(registry) :
                          ~(sess[registry[j]].by = l /\ sess[registry[j]].k = events[x].k)

\* a launch under skip has returned, having skipped one request and created
\* a session for another
C3_Witness ==
    \E l \in LaunchIds :
        /\ launch[l].policy = "skip"
        /\ Returned(l)
        /\ EventsOf(l, "skip") # {}
        /\ Created(l) # {}

(* ---------------------------------- C4 --------------------------------- *)

\* the step creates a session for the request launch l is at
CreatesSession(l) == HandlesRequest(l) /\ Len(sess') = Len(sess) + 1

\* the name of the session the step creates
NewName == sess'[Len(sess')].name

\* C4: under policy rename, a request whose effective name X is held by a
\* live session is created under X (N), where N >= 2 is the smallest
\* counter such that no live session, one created earlier in the batch
\* included, is named X (N).
C4_RenameSmallestFree ==
    [][\A l \in LaunchIds :
          (/\ CreatesSession(l)
           /\ launch[l].policy = "rename"
           /\ ReqName(l) \in LiveNames(terminals, sess))
          => \E n \in FirstCounter..(FirstCounter + Len(terminals)) :
                /\ NewName = Numbered(ReqName(l), n)
                /\ NewName \notin LiveNames(terminals, sess)
                /\ \A m \in FirstCounter..(n - 1) :
                       Numbered(ReqName(l), m) \in LiveNames(terminals, sess)]_vars

\* with X and X (2) live before the launch, a request X was created as
\* X (3)
C4_Witness ==
    \E l \in LaunchIds : \E id \in Created(l) :
        LET x == EffectiveName(launch[l].base, EntryOf(id).name) IN
        /\ launch[l].policy = "rename"
        /\ NamesAtCheck(l) = {x, Numbered(x, 2)}
        /\ sess[id].name = Numbered(x, 3)

(* ---------------------------------- C5 --------------------------------- *)

\* C5: under policy replace, when a request's effective name is held by a
\* live session, that session is disposed before the new one is created,
\* the new one is created under the same effective name, and afterwards no
\* session that was live under that name before the request is live.
C5_ReplaceLeavesNoneOfTheName ==
    [][\A l \in LaunchIds :
          (/\ HandlesRequest(l)
           /\ launch[l].policy = "replace"
           /\ ReqName(l) \in LiveNames(terminals, sess))
          => /\ \A j \in 1..Len(terminals) :
                    sess[terminals[j]].name = ReqName(l)
                        => ~IsLive(terminals', terminals[j])
             /\ CreatesSession(l) =>
                    /\ NewName = ReqName(l)
                    /\ IsLive(terminals', Len(sess'))
                    /\ events'[Len(events')].op = "create"
                    /\ events'[Len(events') - 1].op = "dispose"
                    /\ events'[Len(events') - 1].sid = ReqExisting(l)]_vars

(* ---------------------------------- C6 --------------------------------- *)

\* the effective names of the requests launch l makes
BatchNames(l) ==
    {EffectiveName(launch[l].base, Requests(launch[l].config)[k].entry.name) :
        k \in 1..Len(Requests(launch[l].config))}

\* C6: a launch shows the conflict prompt at most once; once it has checked
\* for duplicates, it has shown the prompt exactly when an effective name of
\* its batch is the name of a session live at the check, and without a
\* prompt its policy is proceed.
C6_OnePromptIffCollision ==
    \A l \in LaunchIds :
        /\ launch[l].prompts <= 1
        /\ Cardinality(EventsOf(l, "prompt")) = launch[l].prompts
        /\ launch[l].pc # "ready" =>
              /\ launch[l].prompts = 1 <=> BatchNames(l) \cap NamesAtCheck(l) # {}
              /\ launch[l].prompts = 0 => launch[l].policy = "proceed"
              /\ launch[l].policy = "proceed" => launch[l].prompts = 0

\* a launch that showed the prompt has created its sessions and returned
C6_Witness ==
    \E l \in LaunchIds :
        /\ launch[l].prompts = 1
        /\ Returned(l)
        /\ Cardinality(Created(l)) > 1

(* ---------------------------------- C7 --------------------------------- *)

\* the sessions a launch created
Launched == {id \in 1..Len(sess) : sess[id].by # 0}

\* the texts sendText was called with for session id while it was disposed
DroppedFor(id) == {j \in 1..Len(dropped) : dropped[j].sid = id}

\* a timer of session id is pending
PendingFor(id) == \E j \in 1..Len(timers) : timers[j].sid = id

\* the number of sendText calls made for session id
NumSent(id) == Len(received[id]) + Cardinality(DroppedFor(id))

\* every text sendText was called with for session id is in S
SentWithin(id, S) ==
    /\ \A x \in 1..Len(received[id]) : received[id][x].text \in S
    /\ \A j \in DroppedFor(id) : dropped[j].text \in S

\* a field holds a non-empty value
HasScript(e) == IsSome(e.script) /\ e.script[1] # EmptyPath

HasCommands(e) == IsSome(e.commands) /\ e.commands[1] # <<>>

HasCommand(e) == IsSome(e.command) /\ e.command[1] # ""

\* the script of entry e as the session created for it is sent it
ScriptText(id) ==
    PathStr(ScriptPath(EntryOf(id).script[1],
                       DispatchBase(sess[id].cwd, BasePath(launch[sess[id].by].base,
                                                           workspace))))

\* C7: of script, commands and command exactly one source is dispatched to
\* a session, the first that is present in that order: with a script only
\* the script is sent, once; else with commands only the commands; else
\* with a command only the command, once; with none of them nothing, ever.
C7_OneSourceByPriority ==
    \A id \in Launched :
        LET e == EntryOf(id)
            all == ~PendingFor(id)
        IN
        IF HasScript(e)
        THEN /\ SentWithin(id, {ScriptText(id)})
             /\ NumSent(id) <= 1
             /\ all => NumSent(id) = 1
        ELSE IF HasCommands(e)
        THEN /\ SentWithin(id, {e.commands[1][x] : x \in 1..Len(e.commands[1])})
             /\ NumSent(id) <= Len(e.commands[1])
             /\ all => NumSent(id) = Len(e.commands[1])
        ELSE IF HasCommand(e)
        THEN /\ SentWithin(id, {e.command[1]})
             /\ NumSent(id) <= 1
             /\ all => NumSent(id) = 1
        ELSE /\ NumSent(id) = 0
             /\ \A j \in 1..Len(timers) : timers[j].sid = id => timers[j].kind = "grace"

\* a session whose entry has a script, commands and a command has been sent
\* all it will be sent: the script
C7_Witness ==
    \E id \in Launched :
        /\ HasScript(EntryOf(id)) /\ HasCommands(EntryOf(id)) /\ HasCommand(EntryOf(id))
        /\ ~PendingFor(id)
        /\ received[id] = <<Text(ScriptText(id), sess[id].at + GraceMs)>>

(* ---------------------------------- C8 --------------------------------- *)

\* the delay the claim gives an entry: the configured one, 100 without
ClaimedDelay(e) == IF IsSome(e.commandDelay) THEN e.commandDelay[1] ELSE 100

\* C8: a session that is dispatched commands receives them in array order,
\* the one at index i (from 0) i * commandDelay ms after the grace period,
\* for every configured commandDelay >= 0, and with 100 when none is
\* configured.
C8_CommandsAtIndexTimesDelay ==
    \A id \in Launched :
        LET e == EntryOf(id) IN
        (~HasScript(e) /\ HasCommands(e)) =>
            /\ Len(received[id]) <= Len(e.commands[1])
            /\ \A x \in 1..Len(received[id]) :
                   /\ received[id][x].text = e.commands[1][x]
                   /\ received[id][x].at =
                          sess[id].at + GraceMs + (x - 1) * ClaimedDelay(e)

(* ---------------------------------- C9 --------------------------------- *)

\* launch l has no groups, no base path and one terminal with only a
\* command
SingleCommandLaunch(l) ==
    LET c == launch[l].config IN
    /\ ~NonEmptyArr(c.groups)
    /\ ~IsSome(launch[l].base)
    /\ IsSome(c.terminals) /\ Len(c.terminals[1]) = 1
    /\ ~IsSome(c.terminals[1][1].script)
    /\ ~IsSome(c.terminals[1][1].commands)
    /\ HasCommand(c.terminals[1][1])

\* nothing is left to happen: the launch has returned and no timer is
\* pending
Quiet(l) == Returned(l) /\ timers = <<>>

\* session id has received the command of its entry once, not before the
\* grace period was over, and nothing else
GotItsCommand(id) ==
    /\ Len(received[id]) = 1
    /\ received[id][1].text = EntryOf(id).command[1]
    /\ received[id][1].at >= sess[id].at + GraceMs

\* C9 as stated: such a launch creates exactly one session, under the
\* terminal's name, and it receives the command once, after the grace
\* period, and nothing else.
C9_AsStated ==
    \A l \in LaunchIds :
        (SingleCommandLaunch(l) /\ Quiet(l)) =>
            /\ Cardinality(Created(l)) = 1
            /\ \A id \in Created(l) :
                   /\ sess[id].name = launch[l].config.terminals[1][1].name
                   /\ GotItsCommand(id)

\* C9 amended: such a launch creates at most one session, which receives
\* nothing but the command, at most once and not before the grace period is
\* over; when no live session held the terminal's name at the check and the
\* host created the session, it is exactly one session under the terminal's
\* name, and it has received the command exactly once when its timer fired
\* while it was live.
C9_SingleCommandEndToEnd ==
    \A l \in LaunchIds :
        SingleCommandLaunch(l) =>
            /\ Cardinality(Created(l)) <= 1
            /\ \A id \in Created(l) :
                   /\ received[id] = <<>> \/ GotItsCommand(id)
                   /\ (~PendingFor(id) /\ DroppedFor(id) = {}) => GotItsCommand(id)
            /\ (/\ Returned(l)
                /\ launch[l].config.terminals[1][1].name \notin NamesAtCheck(l)
                /\ EventsOf(l, "error") = {})
               => /\ Cardinality(Created(l)) = 1
                  /\ launch[l].policy = "proceed"
                  /\ \A id \in Created(l) :
                         sess[id].name = launch[l].config.terminals[1][1].name

\* such a launch, made with no session of that name live, has created its
\* session and the session has received the command
C9_Witness ==
    \E l \in LaunchIds : \E id \in Created(l) :
        /\ SingleCommandLaunch(l)
        /\ Quiet(l)
        /\ launch[l].liveAtCheck = <<>>
        /\ sess[id].name = "A"
        /\ GotItsCommand(id)

(* ---------------------------------- C10 -------------------------------- *)

\* the base of launch l: basePath, or the first workspace root when
\* basePath is absent (an empty string counts as absent)
BaseOrRoot(l) ==
    IF IsSome(launch[l].base) /\ launch[l].base[1] # EmptyPath
    THEN launch[l].base ELSE workspace

\* C10: the working directory of a created session is its entry's cwd
\* unchanged when that is absolute, the cwd joined to basePath (to the first
\* workspace root when basePath is absent) when it is relative, and
\* basePath (or the first workspace root) when the entry has no cwd; so
\* "./x" under "/root" is "/root/x".
C10_CwdResolution ==
    \A id \in Launched :
        LET cwd == EntryOf(id).cwd
            b == BaseOrRoot(sess[id].by)
        IN
        /\ (IsSome(cwd) /\ cwd[1] # EmptyPath /\ cwd[1].abs) => sess[id].cwd = cwd
        /\ (IsSome(cwd) /\ cwd[1] # EmptyPath /\ ~cwd[1].abs) =>
               /\ IsSome(b)
               /\ sess[id].cwd = Some(Join(b[1], cwd[1]))
        /\ (~IsSome(cwd) \/ cwd = Some(EmptyPath)) => sess[id].cwd = b
        /\ (cwd = Some(Path(FALSE, <<".", "x">>)) /\ b = Some(Path(TRUE, <<"root">>)))
               => PathStr(sess[id].cwd[1]) = "/root/x"
        /\ (cwd = Some(Path(FALSE, <<"..", "x">>)) /\ b = Some(ProjectDir))
               => PathStr(sess[id].cwd[1]) = "/w/x"
        /\ cwd = Some(Path(TRUE, <<"abs", "..", "z">>))
               => PathStr(sess[id].cwd[1]) = "/abs/../z"

\* a session was created for cwd "./x" under the base path "/root"
C10_Witness ==
    \E id \in Launched :
        /\ EntryOf(id).cwd = Some(Path(FALSE, <<".", "x">>))
        /\ launch[sess[id].by].base = Some(Path(TRUE, <<"root">>))
        /\ sess[id].cwd = Some(Path(TRUE, <<"root", "x">>))

(* ---------------------------------- C11 -------------------------------- *)

\* the requests launch l makes
ReqsOf(l) == Requests(launch[l].config)

\* request k of launch l has a relative cwd while neither the project path
\* nor a workspace root is there
RelativeWithoutBase(l, k) ==
    LET cwd == ReqsOf(l)[k].entry.cwd IN
    /\ IsSome(cwd) /\ cwd[1] # EmptyPath /\ ~cwd[1].abs
    /\ ~(IsSome(launch[l].base) /\ launch[l].base[1] # EmptyPath)
    /\ ~(IsSome(workspace) /\ workspace[1] # EmptyPath)

\* what became of request k of launch l: its create, skip and error events
OutcomesOf(l, k) ==
    {j \in 1..Len(events) :
        /\ events[j].l = l /\ events[j].k = k
        /\ events[j].op \in {"create", "skip", "error"}}

\* request k of launch l has been handled
Handled(l, k) ==
    \/ Returned(l) /\ launch[l].policy # "cancel"
    \/ k < launch[l].k
    \/ k = launch[l].k /\ launch[l].pc = "sleep"

\* a request that fails on its path leaves one path error and no session, every
\* other request that was reached has exactly one outcome of its own, the
\* outcomes come in the order of the requests, and a launch that was not
\* cancelled returns only when every request has its outcome
IsolatedPathErrors ==
    \A l \in LaunchIds :
        /\ \A k \in 1..Len(ReqsOf(l)) :
             /\ Cardinality(OutcomesOf(l, k)) = IF Handled(l, k) THEN 1 ELSE 0
             /\ \A j \in OutcomesOf(l, k) :
                    RelativeWithoutBase(l, k)
                        <=> (events[j].op = "error" /\ events[j].info = "path")
             /\ RelativeWithoutBase(l, k) =>
                    /\ \A id \in Created(l) : sess[id].k # k
                    /\ \A j \in 1..Len(events) :
                           (events[j].l = l /\ events[j].k = k)
                               => events[j].op = "error"
        /\ \A i, j \in 1..Len(events) :
               (i < j /\ events[i].l = l /\ events[j].l = l) =>
                   events[i].k <= events[j].k

\* the step in which a request fails on its path changes nothing in the host
PathErrorLeavesHostAlone ==
    \A l \in LaunchIds :
        (HandlesRequest(l) /\ RelativeWithoutBase(l, launch[l].k))
            => UNCHANGED <<terminals, sess, registry, timers, received, dropped,
                           shown, failBudget, workspace, now>>

\* the index request k of launch l would have in its group, or in the
\* ungrouped list, without the requests that fail on their path
IndexWithoutPathErrors(l, k) ==
    1 + Cardinality({x \in 1..(k - 1) :
                        /\ ReqsOf(l)[x].g = ReqsOf(l)[k].g
                        /\ ~RelativeWithoutBase(l, x)})

ErrorsOf(l) == EventsOf(l, "error")

\* C12: a failing request does not halt its siblings, and the failures of a
\* launch are reported exactly once, in one message issued after the whole
\* batch has completed: no error message is shown while the launch is still
\* at its requests, and a launch never shows more than one.
C12_OneAggregateReport ==
    \A l \in LaunchIds :
        /\ \A k \in 1..Len(ReqsOf(l)) :
               (Returned(l) /\ launch[l].policy # "cancel")
                   => OutcomesOf(l, k) # {}
        /\ Cardinality(ErrorsOf(l)) <= 1
        /\ ErrorsOf(l) # {} => Returned(l)
        /\ \A j \in ErrorsOf(l) : \A x \in 1..Len(events) :
               (events[x].l = l /\ events[x].op \in {"create", "skip"}) => x < j

(* ---------------------------------- C13 -------------------------------- *)

\* the sessions of launch l that terminal.show was called on
ShownOf(l) == {shown[x].sid : x \in {y \in 1..Len(shown) : sess[shown[y].sid].by = l}}

\* the sessions of launch l that were shown and given the focus:
\* show(preserveFocus) with preserveFocus false
FocusedOf(l) ==
    {shown[x].sid : x \in {y \in 1..Len(shown) :
                              sess[shown[y].sid].by = l /\ ~shown[y].preserveFocus}}

\* the sessions of launch l whose show call was passed true, the value of
\* i === 0
FlaggedOf(l) ==
    {shown[x].sid : x \in {y \in 1..Len(shown) :
                              sess[shown[y].sid].by = l /\ shown[y].preserveFocus}}

\* of the sessions a returned launch created, the first, and no other, is in
\* front(l)
OnlyFirstCreatedIn(front(_)) ==
    \A l \in LaunchIds :
        (Returned(l) /\ Created(l) # {}) =>
            front(l) = {CHOOSE id \in Created(l) : \A o \in Created(l) : id <= o}

\* C13: in every launch the first request that is successfully created is
\* the one and only session brought to the foreground, every other created
\* session of the batch is left in the background; read with "brought to the
\* foreground" as shown, as shown and given the focus, or as shown with the
\* flag i === 0 set.
C13_OnlyFirstCreatedInForeground ==
    \/ OnlyFirstCreatedIn(ShownOf)
    \/ OnlyFirstCreatedIn(FocusedOf)
    \/ OnlyFirstCreatedIn(FlaggedOf)

(* ---------------------------------- C14 -------------------------------- *)

\* session a stands before session b in the declared sequence: an earlier
\* group, or the same group (or the ungrouped list) and an earlier terminal
DeclaredBefore(a, b) ==
    \/ sess[a].g < sess[b].g
    \/ sess[a].g = sess[b].g /\ sess[a].i < sess[b].i

\* the entry the configuration of launch l declares at terminal i of group g,
\* or of the ungrouped list when g = 0
DeclaredEntry(l, g, i) ==
    IF g = 0 THEN launch[l].config.terminals[1][i]
    ELSE launch[l].config.groups[1][g].terminals[1][i]

\* C14: the sessions of one batch are created one at a time in the declared
\* sequence (group order, then terminal order within the group, or the order
\* of the ungrouped list), each for the entry declared at its place; a
\* request is created, skipped or failed only after every earlier request of
\* the batch has been, and never before an earlier session was created.
C14_DeclaredSequence ==
    \A l \in LaunchIds :
        /\ \A a, b \in Created(l) :
               a < b => /\ DeclaredBefore(a, b)
                        /\ sess[a].at <= sess[b].at
                        /\ sess[a].k < sess[b].k
        /\ \A id \in Created(l) :
               /\ EntryOf(id) = DeclaredEntry(l, sess[id].g, sess[id].i)
               /\ \E j \in OutcomesOf(l, sess[id].k) :
                      events[j].op = "create" /\ events[j].sid = id
        /\ \A k \in 1..Len(ReqsOf(l)) : \A j \in OutcomesOf(l, k) :
               \A e \in 1..(k - 1) : \E x \in OutcomesOf(l, e) : x < j

\* a launch has returned with two sessions of its first group and one of its
\* second
C14_Witness ==
    \E l \in LaunchIds :
        /\ Returned(l)
        /\ \E a, b, c \in Created(l) :
               /\ a < b /\ b < c
               /\ sess[a].g = 1 /\ sess[b].g = 1 /\ sess[c].g = 2

(* ---------------------------------- C15 -------------------------------- *)

\* session b is the next session launch l created after session a
ConsecutiveCreations(l, a, b) ==
    /\ a \in Created(l) /\ b \in Created(l) /\ a < b
    /\ ~\E c \in Created(l) : a < c /\ c < b

\* C15: within one group at least the stagger delay (200 ms) lies between
\* two consecutive session creations, also when a request between them was
\* skipped or failed; in an ungrouped batch all sessions are created at the
\* same time and no stagger timer is ever set.
C15_StaggerWithinGroup ==
    \A l \in LaunchIds :
        /\ \A a, b \in Created(l) :
               (ConsecutiveCreations(l, a, b) /\ sess[a].g = sess[b].g) =>
                   IF sess[a].g > 0
                   THEN sess[b].at >= sess[a].at + 200
                   ELSE sess[b].at = sess[a].at
        /\ ~NonEmptyArr(launch[l].config.groups) =>
               /\ launch[l].pc # "sleep"
               /\ \A j \in 1..Len(timers) :
                      ~(timers[j].kind = "stagger" /\ timers[j].l = l)

\* in a group of three the second request was skipped or failed, and the
\* third was created after the first
C15_Witness ==
    \E l \in LaunchIds : \E a, b \in Created(l) :
        /\ ConsecutiveCreations(l, a, b)
        /\ sess[a].g = 1 /\ sess[b].g = 1
        /\ sess[a].i = 1 /\ sess[b].i = 3
        /\ \E j \in OutcomesOf(l, 2) : events[j].op \in {"skip", "error"}

(* ---------------------------------- C16 -------------------------------- *)

\* C16: disposeTerminals disposes every session the registry holds and
\* leaves the registry empty; it leaves every other session as it is and
\* shows no error; with an empty registry, as after a call of it, it
\* changes nothing: no call of it with an empty registry changes the state.
C16_DisposeAll ==
    /\ [](registry = <<>> => ~ENABLED <<DisposeTerminals>>_vars)
    /\ [][DisposeTerminals =>
             /\ registry' = <<>>
             /\ \A j \in 1..Len(registry) : ~IsLive(terminals', registry[j])
             /\ \A j \in 1..Len(terminals) :
                    ~InRegistry(terminals[j]) => IsLive(terminals', terminals[j])
             /\ \A j \in 1..Len(terminals') : IsLive(terminals, terminals'[j])
             /\ \A j \in (Len(events) + 1)..Len(events') :
                    /\ events'[j].op = "dispose"
                    /\ InRegistry(events'[j].sid) /\ IsLive(terminals, events'[j].sid)
             /\ UNCHANGED <<launch, sess, timers, received, dropped, shown, now>>
             /\ registry = <<>> => UNCHANGED vars]_vars

\* disposeTerminals has disposed a tracked session while a session the
\* registry never held stays live
C16_Witness ==
    /\ registry = <<>>
    /\ \E id \in Launched : \E j \in EventsOf(0, "dispose") : events[j].sid = id
    /\ \E j \in 1..Len(terminals) : sess[terminals[j]].by = 0

(* ---------------------------------- C17 -------------------------------- *)

\* basePath, or the first workspace root when basePath is absent
BaseOrWorkspace(l) ==
    IF IsSome(launch[l].base) /\ launch[l].base[1] # EmptyPath THEN launch[l].base
    ELSE workspace

\* the line a script is to be sent as when it is resolved like cwd: an
\* absolute script unchanged, a relative one joined to the base
ScriptLikeCwd(id) ==
    LET script == EntryOf(id).script[1]
        base == BaseOrWorkspace(sess[id].by)[1]
    IN PathStr(IF script.abs THEN script ELSE Join(base, script))

\* C17: a session whose entry has a script is sent one line of text, once:
\* an absolute script path unchanged, a relative one resolved against
\* basePath (or the first workspace root when basePath is absent) whatever
\* the entry's own cwd is.
C17_ScriptResolvedLikeCwd ==
    \A id \in Launched :
        (/\ HasScript(EntryOf(id))
         /\ IsSome(BaseOrWorkspace(sess[id].by))
         /\ BaseOrWorkspace(sess[id].by)[1] # EmptyPath)
            => /\ SentWithin(id, {ScriptLikeCwd(id)})
               /\ NumSent(id) <= 1
               /\ ~PendingFor(id) => NumSent(id) = 1

(* ---------------------------------- C18 -------------------------------- *)

\* '[' + basename(basePath) + '] ' + name when basePath is supplied, and name
\* otherwise
PrefixedName(l, name) ==
    IF IsSome(launch[l].base) /\ launch[l].base[1] # EmptyPath
    THEN "[" \o Basename(launch[l].base[1]) \o "] " \o name
    ELSE name

\* under policy proceed every session is created under exactly the effective
\* name of its entry, and nothing is skipped, renamed or disposed
ProceedKeepsNames ==
    \A l \in LaunchIds :
        launch[l].policy = "proceed" =>
            /\ \A id \in Created(l) :
                   sess[id].name = PrefixedName(l, DeclaredEntry(l, sess[id].g, sess[id].i).name)
            /\ EventsOf(l, "skip") = {} /\ EventsOf(l, "dispose") = {}

\* C18: names are not made unique within a config: when no effective name of
\* the batch is held by a live session at the check (policy proceed), every
\* session is created under exactly its effective name, '[' +
\* basename(basePath) + '] ' + name with a basePath and name without, also
\* when two requests of the batch share that name; no request is skipped or
\* renamed and no session is disposed, and every request that reports no
\* error is created.
C18_ProceedCreatesUnderEffectiveName ==
    /\ ProceedKeepsNames
    /\ \A l \in LaunchIds :
           (launch[l].policy = "proceed" /\ Returned(l)) =>
               \A k \in 1..Len(ReqsOf(l)) :
                   \/ \E id \in Created(l) :
                          /\ sess[id].k = k
                          /\ sess[id].name = PrefixedName(l, ReqsOf(l)[k].entry.name)
                   \/ \E j \in OutcomesOf(l, k) : events[j].op = "error"

\* under policy proceed, with a project path, a launch has created two
\* sessions of one prefixed name and both are live
C18_Witness ==
    \E l \in LaunchIds : \E a, b \in Created(l) :
        /\ launch[l].policy = "proceed"
        /\ IsSome(launch[l].base)
        /\ a # b
        /\ sess[a].name = sess[b].name
        /\ sess[a].name = "[proj] A"
        /\ IsLive(terminals, a) /\ IsLive(terminals, b)

(* ---------------------------------- C19 -------------------------------- *)

\* the kind of outcome a returned launch is to report: UserCancelled when the
\* conflict choice was cancel, PartialFailure when a request failed, Success
\* otherwise
OutcomeKind(l) ==
    IF launch[l].policy = "cancel" THEN "cancelled"
    ELSE IF ErrorsOf(l) # {} THEN "partial"
    ELSE "launched"

\* C19: a launch made by the launch command has, once it has returned,
\* reported its outcome by kind: a cancelled one as cancelled and never as a
\* success, one with a failed request as a partial failure, and the success
\* report is made only when the sessions were created without error.
C19_OutcomeByKind ==
    \A l \in LaunchIds :
        (Returned(l) /\ ByCommand(launch[l])) =>
            /\ launch[l].report = OutcomeKind(l)
            /\ launch[l].report = "launched" =>
                   (launch[l].policy # "cancel" /\ ErrorsOf(l) = {})

(* ---------------------------------- C20 -------------------------------- *)

\* the effective names of the batch of launch l are pairwise distinct
DistinctNames(l) ==
    \A x, y \in 1..Len(ReqsOf(l)) :
        x # y => PrefixedName(l, ReqsOf(l)[x].entry.name)
                     # PrefixedName(l, ReqsOf(l)[y].entry.name)

\* session a, created by launch l, is live beside another live session of
\* its name
Doubles(l, a) ==
    /\ a \in Created(l) /\ IsLive(terminals, a)
    /\ \E b \in 1..Len(sess) :
           b # a /\ IsLive(terminals, b) /\ sess[b].name = sess[a].name

\* launch l passed its check with policy proceed and then created session a
\* under the name of session b, which another launch created after that
\* check; both are live
MissedDuplicate(l, a, b) ==
    /\ launch[l].policy = "proceed"
    /\ a \in Created(l) /\ IsLive(terminals, a)
    /\ b < a /\ IsLive(terminals, b)
    /\ sess[b].by # 0 /\ sess[b].by # l
    /\ ~IsLive(launch[l].liveAtCheck, b)
    /\ sess[b].name = sess[a].name

\* no two sessions that were live before the launches share a name
DistinctBefore ==
    \A x, y \in 1..Len(sess) :
        (x # y /\ sess[x].by = 0 /\ sess[y].by = 0) => sess[x].name # sess[y].name

\* C20: a launch that overlapped no other call never creates a session
\* under the name of a session another call created after its check; when
\* its batch has pairwise distinct effective names and its policy is
\* proceed, skip or rename, no session it created is live beside another
\* live session of the same name; and so for policy replace as well when no
\* two sessions live before the launches shared a name. (Two calls that
\* interleave at the prompt or the stagger do reach the state of two live
\* sessions with one name: C20_Witness.)
C20_SerializedCallerIsSafe ==
    \A l \in LaunchIds :
        ~launch[l].overlap =>
            /\ \A a, b \in 1..Len(sess) : ~MissedDuplicate(l, a, b)
            /\ (DistinctNames(l) /\ launch[l].policy \in {"proceed", "skip", "rename"})
                   => \A a \in Created(l) : ~Doubles(l, a)
            /\ (DistinctNames(l) /\ DistinctBefore
                 /\ \A m \in LaunchIds : DistinctNames(m))
                   => \A a \in Created(l) : ~Doubles(l, a)

\* two calls interleaved: one passed its check with policy proceed, waited
\* out a stagger, and created a session under the name of a session the
\* other call had created meanwhile; both sessions are live
C20_Witness ==
    \E l \in LaunchIds : \E a, b \in 1..Len(sess) :
        /\ launch[l].overlap
        /\ DistinctNames(l)
        /\ MissedDuplicate(l, a, b)

(* ------------------------ what the parser claims speak of --------------- *)

\* command c has applied parseConfig
HasParsed(c) == cmd[c].parsed.kind # "none"

\* the file command c applied it to
ParsedFile(c) == cmd[c].found[cmd[c].i]

\* the content was written as lines of the custom format
IsCustomText(content) ==
    content = <<>>
    \/ LET pieces == Split(content, "\n")
       IN  \A i \in 1..Len(pieces) : \E a \in ParseLineChoices : a.text = pieces[i]

\* those lines, as they were written
Written(content) ==
    IF content = <<>> THEN <<>>
    ELSE LET pieces == Split(content, "\n")
         IN  [i \in 1..Len(pieces) |->
                 CHOOSE a \in ParseLineChoices : a.text = pieces[i]]

\* the content is a JSON document: one of JsonDocs, or the header [1] alone
\* among blank lines, which is the array of the number 1
IsLoneArray(content) ==
    /\ IsCustomText(content)
    /\ LET ls == Written(content)
       IN  \E i \in 1..Len(ls) :
               /\ ls[i] = LineHeaderOne
               /\ \A j \in 1..Len(ls) : j # i => ls[j] = LineBlank

DenotesJson(content) ==
    IsLoneArray(content) \/ \E d \in JsonDocs : d.text = content

\* the value that document denotes
Denoted(content) ==
    IF IsLoneArray(content) THEN JArr(<<JNum(<<"1">>)>>)
    ELSE (CHOOSE d \in JsonDocs : d.text = content).value

\* the positions of the header lines of ls, in order
HeaderPositions(ls) ==
    SelectSeq([i \in 1..Len(ls) |-> i], LAMBDA i : ls[i].kind = "header")

\* the positions of the lines of ls that belong to its n-th header: after
\* it and before the next header or the end
Body(ls, n) ==
    LET hs == HeaderPositions(ls)
        next == IF n < Len(hs) THEN hs[n + 1] ELSE Len(ls) + 1
    IN  (hs[n] + 1)..(next - 1)

RecognizedKeys == {"cwd", "command", "script", "color", "icon", "commands"}

\* the recognized keys written under the n-th header of ls
KeysWritten(ls, n) == {ls[p].key : p \in {q \in Body(ls, n) : ls[q].kind = "key"}}

\* the keys a record of the output carries
KeysCarried(t) == {k \in RecognizedKeys : IsSome(t[k])}

\* the last line under the n-th header of ls that sets key k
LastSetting(ls, n, k) ==
    CHOOSE p \in Body(ls, n) :
        /\ ls[p].kind = "key" /\ ls[p].key = k
        /\ \A q \in Body(ls, n) : (ls[q].kind = "key" /\ ls[q].key = k) => q <= p

\* the text of a line after its first "=", trimmed
AfterFirstEquals(text) == Trim(After(Trim(text), IndexOf(Trim(text), "=")))

(* ---------------------------------- C21 -------------------------------- *)

\* C21: parseConfig of a readable file returns the JSON value as it is
\* whenever the content is a JSON document, even one the custom grammar
\* could read; on any other content it returns the custom grammar's result,
\* which is always a config with a terminals list and no groups.
C21_StructuredFirst ==
    \A c \in 1..Len(cmd) :
        (HasParsed(c) /\ ParsedFile(c).readable) =>
            IF DenotesJson(ParsedFile(c).content)
            THEN /\ cmd[c].parsed.kind = "json"
                 /\ cmd[c].parsed.value = Denoted(ParsedFile(c).content)
            ELSE /\ cmd[c].parsed.kind = "custom"
                 /\ cmd[c].parsed.config = ParseCustomFormat(ParsedFile(c).content)
                 /\ cmd[c].parsed.config.groups = None
                 /\ IsSome(cmd[c].parsed.config.terminals)

\* a file whose text is a header of the custom grammar was decoded as JSON
C21_Witness ==
    \E c \in 1..Len(cmd) :
        /\ HasParsed(c)
        /\ cmd[c].parsed.kind = "json"
        /\ IsHeader(Trim(ParsedFile(c).content))

(* ---------------------------------- C22 -------------------------------- *)

\* C22: on every custom-format file the terminals list of parseCustomFormat
\* has one record per header line, in the order of the headers; record n has
\* the name of header n and carries exactly the recognized keys written
\* between header n and the next header or the end. Blank lines, comments,
\* unknown keys and key lines before the first header add nothing.
C22_OneRecordPerHeader ==
    \A c \in 1..Len(cmd) :
        (HasParsed(c) /\ ParsedFile(c).readable /\ IsCustomText(ParsedFile(c).content)) =>
            LET ls == Written(ParsedFile(c).content)
                out == ParseCustomFormat(ParsedFile(c).content).terminals[1]
            IN  /\ cmd[c].parsed.kind = "custom" => cmd[c].parsed.config.terminals[1] = out
                /\ Len(out) = Len(HeaderPositions(ls))
                /\ \A n \in 1..Len(out) :
                      /\ out[n].name = ls[HeaderPositions(ls)[n]].name
                      /\ KeysCarried(out[n]) = KeysWritten(ls, n)

\* a file of three lines was parsed: a key line before any header, then two
\* headers, which gave two records
C22_Witness ==
    \E c \in 1..Len(cmd) :
        /\ HasParsed(c)
        /\ cmd[c].parsed.kind = "custom"
        /\ IsCustomText(ParsedFile(c).content)
        /\ Len(Written(ParsedFile(c).content)) = 3
        /\ Written(ParsedFile(c).content)[1].kind = "key"
        /\ Len(cmd[c].parsed.config.terminals[1]) = 2

(* ---------------------------------- C23 -------------------------------- *)

\* C23: the value a record carries for a key is the text of the last line
\* that sets it, after the first "=" of that line and trimmed, later "="
\* included; for the commands key it is that text cut at every ";", each
\* segment trimmed, in order ("a ; b;c " gives a, b, c).
C23_FirstEqualsAndSegments ==
    \A c \in 1..Len(cmd) :
        (HasParsed(c) /\ ParsedFile(c).readable /\ IsCustomText(ParsedFile(c).content)) =>
            LET ls == Written(ParsedFile(c).content)
                out == ParseCustomFormat(ParsedFile(c).content).terminals[1]
            IN  \A n \in 1..Len(out) : \A k \in KeysWritten(ls, n) :
                    LET line == ls[LastSetting(ls, n, k)] IN
                    /\ out[n][k] = Some(line.value)
                    /\ k # "commands" => line.value = AfterFirstEquals(line.text)

\* a record was parsed that has a command with an "=" in it and a commands
\* list of three segments
C23_Witness ==
    \E c \in 1..Len(cmd) :
        /\ HasParsed(c)
        /\ cmd[c].parsed.kind = "custom"
        /\ \E n \in 1..Len(cmd[c].parsed.config.terminals[1]) :
              /\ cmd[c].parsed.config.terminals[1][n].command = Some(<<"a", "=", "b">>)
              /\ cmd[c].parsed.config.terminals[1][n].commands
                    = Some(<<<<"a">>, <<"b">>, <<"c">>>>)

(* ----------------------- what the command claims speak of --------------- *)

\* the files that hold a configuration that can be launched
CanLaunch(file) == file \in {FileA, FileG}

\* the configuration each of them holds, as it is written in it
ConfigWritten(file) ==
    IF file = FileA
    THEN Config(None, Some(<<Entry("a", None, None, None, Some("a=b"), None)>>))
    ELSE Config(Some(<<Group(Some(<<Entry("A", None, None, None, Some("run a"), None),
                                    Entry("B", None, None, None, None, None)>>))>>),
                None)

\* no session has been created: every session the host held was there
\* before the command
NothingCreated == \A id \in 1..Len(sess) : sess[id].by = 0

\* the positions of the events of call l
EventsBy(l) == {j \in 1..Len(events) : events[j].l = l}

\* the configs a launch-all command has been through: all of them when its
\* loop is over, those up to the one it is at otherwise
Reached(c) ==
    IF cmd[c].answer # "Yes" THEN 0
    ELSE IF cmd[c].pc = "done" THEN Len(cmd[c].found)
    ELSE cmd[c].i

\* command c showed a quick pick of the configs
Picked(c) == \E j \in 1..Len(notes) : notes[j].c = c /\ notes[j].kind = "pick"

(* ---------------------------------- C24 -------------------------------- *)

\* C24: launchAllTerminals makes no launchTerminals call and creates no
\* session unless its confirmation was answered Yes; after Yes, the calls it
\* has made are for the configs it has been through that can be launched,
\* in discovery order (a config that cannot be read is passed over and the
\* ones after it are launched), and when a call is made the call before it
\* has returned and everything that call did came before.
C24_LaunchAllInOrder ==
    \A c \in 1..Len(cmd) :
        cmd[c].kind = "launchAllTerminals" =>
            LET calls == cmd[c].calls
                found == cmd[c].found
            IN  /\ cmd[c].answer # "Yes" => (calls = <<>> /\ NothingCreated)
                /\ {calls[n].i : n \in 1..Len(calls)}
                      = {j \in 1..Reached(c) : CanLaunch(found[j])}
                /\ \A n \in 1..Len(calls) :
                      /\ launch[calls[n].l].config = ConfigWritten(found[calls[n].i])
                      /\ n > 1 =>
                          /\ calls[n - 1].i < calls[n].i
                          /\ launch[calls[n - 1].l].pc = "done"
                          /\ \A e1 \in EventsBy(calls[n - 1].l) :
                                \A e2 \in EventsBy(calls[n].l) : e1 < e2
                /\ \A id \in 1..Len(sess) :
                      sess[id].by # 0 => \E n \in 1..Len(calls) : calls[n].l = sess[id].by

\* launchAllTerminals is over after Yes on three configs, the second of
\* which cannot be read: it made two calls, and each created a session
C24_Witness ==
    \E c \in 1..Len(cmd) :
        /\ cmd[c].kind = "launchAllTerminals"
        /\ cmd[c].pc = "done"
        /\ Len(cmd[c].found) = 3
        /\ ~cmd[c].found[2].readable
        /\ Len(cmd[c].calls) = 2
        /\ Created(cmd[c].calls[1].l) # {}
        /\ Created(cmd[c].calls[2].l) # {}

(* ---------------------------------- C25 -------------------------------- *)

\* C25: launchTerminals (the command) makes no call and creates no session
\* when no workspace folder is open or no config is found; with one config
\* it shows no quick pick and launches that config; with more it shows the
\* quick pick, makes no call when it is dismissed and at most one call
\* otherwise. Every call it makes is for the chosen config, with the
\* directory of that config file as project path, and only that call
\* creates sessions.
C25_LaunchCurrent ==
    \A c \in 1..Len(cmd) :
        cmd[c].kind = "launchTerminals" =>
            LET calls == cmd[c].calls
                found == cmd[c].found
            IN  /\ (workspace = None \/ found = <<>>) => (calls = <<>> /\ NothingCreated)
                /\ Len(found) = 1 =>
                      /\ ~Picked(c)
                      /\ CanLaunch(found[1]) => (Len(calls) = 1 /\ calls[1].i = 1)
                /\ Len(found) > 1 =>
                      /\ Picked(c)
                      /\ Len(calls) <= 1
                      /\ cmd[c].answer # "picked" => (calls = <<>> /\ NothingCreated)
                      /\ (cmd[c].answer = "picked" /\ CanLaunch(found[cmd[c].i]))
                            => Len(calls) = 1
                /\ \A n \in 1..Len(calls) :
                      /\ calls[n].i = cmd[c].i
                      /\ launch[calls[n].l].config = ConfigWritten(found[calls[n].i])
                      /\ launch[calls[n].l].base = Some(found[calls[n].i].dir)
                /\ \A id \in 1..Len(sess) :
                      sess[id].by # 0 => \E n \in 1..Len(calls) : calls[n].l = sess[id].by

\* the second of two configs was picked, and its launch created a session
C25_Witness ==
    \E c \in 1..Len(cmd) :
        /\ cmd[c].kind = "launchTerminals"
        /\ Len(cmd[c].found) = 2
        /\ Len(cmd[c].calls) = 1
        /\ cmd[c].calls[1].i = 2
        /\ Created(cmd[c].calls[1].l) # {}

(* ---------------------------------- C26 -------------------------------- *)

\* C26: a step in which a config file is created shows one information
\* message and does nothing else: the sessions, the registry, the pending
\* timers, what the sessions received, the calls and the commands are as
\* they were.
C26_FileCreationOnlyNotifies ==
    [][files' # files =>
          /\ notes' = Append(notes, Note(0, "info", "Terminal configuration file detected."))
          /\ UNCHANGED <<launch, active, terminals, sess, registry, timers,
                         received, dropped, events, shown, cmd>>]_vars

\* a config file was created while a session was live, tracked and waiting
\* for its command
C26_Witness ==
    /\ \E j \in 1..Len(notes) : notes[j].c = 0
    /\ registry # <<>>
    /\ timers # <<>>
    /\ \E id \in 1..Len(sess) : sess[id].by # 0 /\ IsLive(terminals, id)

(* ---------------------------------- C27 -------------------------------- *)

FailsRequest ==
    /\ Len(events') > Len(events)
    /\ events'[Len(events')].op = "error"

\* C28: a step in which a request fails leaves the live sessions as they
\* were; under policy replace the session of the colliding name is disposed
\* only in a step that creates its replacement.
C28_FailedRequestKeepsLiveSessions ==
    [][FailsRequest => terminals' = terminals]_vars

(* ---------------------------------- C29 -------------------------------- *)

\* C29: a launch never disposes a session it created itself: every session
\* a request of launch l disposes was created by no launch (it was live
\* before) or by another launch.
C29_ReplaceSparesOwnSessions ==
    \A j \in 1..Len(events) :
        (events[j].op = "dispose" /\ events[j].l # 0)
            => sess[events[j].sid].by # events[j].l

(* ---------------------------------- C30 -------------------------------- *)

\* the live sessions have pairwise distinct names
LiveDistinct ==
    \A x, y \in 1..Len(terminals) :
        x # y => sess[terminals[x]].name # sess[terminals[y]].name

\* C30: when no two sessions that were live before the launch shared a name
\* and the policy of the launch is rename or skip, the live sessions have
\* pairwise distinct names in every state of the launch and after it, also
\* when the batch repeats a name and when the host fails a creation.
C30_RenameAndSkipKeepNamesDistinct ==
    \A l \in LaunchIds :
        (DistinctBefore /\ launch[l].policy \in {"rename", "skip"}) => LiveDistinct

\* under policy rename a batch that names two entries alike has created a
\* session for each, beside the session that was live under that name
C30_Witness ==
    \E l \in LaunchIds : \E a, b \in Created(l) :
        /\ launch[l].policy = "rename"
        /\ DistinctBefore
        /\ a # b
        /\ ReqsOf(l)[sess[a].k].entry.name = ReqsOf(l)[sess[b].k].entry.name
        /\ IsLive(terminals, a) /\ IsLive(terminals, b)
        /\ \E c \in 1..Len(sess) :
              /\ sess[c].by = 0 /\ IsLive(terminals, c)
              /\ sess[c].name = PrefixedName(l, ReqsOf(l)[sess[a].k].entry.name)

(* ------------------------ what the relaunch claim speaks of ------------- *)

\* the launchTerminals calls the entry points have made: <<c, n>> is the
\* n-th call of command c
CallsMade == {<<c, n>> \in (1..Len(cmd)) \X (1..2) : n <= Len(cmd[c].calls)}

\* the launchTerminals call that is
CallOf(p) == cmd[p[1]].calls[p[2]].l

\* the config file it was made for
FileOf(p) == cmd[p[1]].found[cmd[p[1]].calls[p[2]].i]

\* call l has made its check for duplicates
HasChecked(l) == launch[l].pc # "ready"

\* a session that call e created was live when call l made its check
LiveFrom(e, l) ==
    \E j \in 1..Len(launch[l].liveAtCheck) : sess[launch[l].liveAtCheck[j]].by = e

(* ---------------------------------- C31 -------------------------------- *)

\* C31: whichever entry points made them, when a launchTerminals call for a
\* config file makes its check while a session is live that an earlier call
\* for the same file created, the conflict prompt is shown.
C31_RelaunchIsDetected ==
    \A p, q \in CallsMade :
        (/\ CallOf(p) # CallOf(q)
         /\ FileOf(p) = FileOf(q)
         /\ HasChecked(CallOf(q))
         /\ LiveFrom(CallOf(p), CallOf(q)))
            => launch[CallOf(q)].prompts = 1

(* ---------------------------------- C32 -------------------------------- *)

\* the call has passed its check and its prompt, and has not returned
InLoops(l) == launch[l].pc \in {"run", "sleep"}

\* session id was created by a call whose policy is rename
CreatedUnderRename(id) == sess[id].by > 0 /\ launch[sess[id].by].policy = "rename"

\* the effective name of the request session id was created for
RequestedName(id) == PrefixedName(sess[id].by, EntryOf(id).name)

\* the name of session id is the requested one, or the requested one with a
\* counter that is at most FirstCounter plus the number of sessions
SearchStopped(id) ==
    \/ sess[id].name = RequestedName(id)
    \/ \E n \in FirstCounter..(FirstCounter + Len(sess)) :
           sess[id].name = Numbered(RequestedName(id), n)

\* C32: a launchTerminals call that has passed its prompt returns; the name
\* search of rename stops at a counter bounded by the number of sessions;
\* and once the call has returned every timer it set fires, after which none
\* is pending any more.
C32_LaunchTerminates ==
    /\ InLoops(1) ~> (launch[1].pc = "done")
    /\ (launch[1].pc = "ready") ~> (launch[1].pc \in {"prompt", "done"})
    /\ [](\A id \in 1..Len(sess) : CreatedUnderRename(id) => SearchStopped(id))
    /\ (launch[1].pc = "done") ~> [](timers = <<>>)

\* a call answered rename has returned after it created a session under a
\* numbered name, every timer has fired, and the session received a text
C32_Witness ==
    /\ launch[1].pc = "done"
    /\ launch[1].policy = "rename"
    /\ timers = <<>>
    /\ \E id \in 1..Len(sess) :
          /\ CreatedUnderRename(id)
          /\ sess[id].name # RequestedName(id)
          /\ received[id] # <<>>

=============================================================================
